---- MODULE Spec2Model ----
(***************************************************************************)
(* Model of the Magistrala Python SDK: resource clients that each build    *)
(* one HTTP request, send it, and map the response to a record, an         *)
(* acknowledgement or the uniform Error; the Roles helper and its          *)
(* wrappers; and the bootstrap AES-256-CFB encrypt / decrypt pair.         *)
(*                                                                         *)
(* Strings are sequences of tokens.  A token is either a separator         *)
(* ("/", "?", "&", "=", ".", " ") or a word that contains no separator,    *)
(* so that split, join, rstrip, urljoin and urlencode are computed on the  *)
(* token sequence the way Python computes them on characters.              *)
(***************************************************************************)
EXTENDS Integers, Sequences, FiniteSets, TLC

VARIABLES config, kwargs, pc, call, wire, resp, outcome,
          cpc, ctext, ckey, civ, cenc, cdkey, cdtext, cdec,
          threads

vars == <<config, kwargs, pc, call, wire, resp, outcome,
          cpc, ctext, ckey, civ, cenc, cdkey, cdtext, cdec,
          threads>>

httpVars == <<config, kwargs, pc, call, wire, resp, outcome>>

cryptoVars == <<cpc, ctext, ckey, civ, cenc, cdkey, cdtext, cdec>>

----------------------------------------------------------------------------
(* Python values that appear as arguments: None, int, bool, str.           *)

PyNone == [t |-> "none", i |-> 0, s |-> <<>>]

PyInt(n) == [t |-> "int", i |-> n, s |-> <<>>]

PyBool(b) == [t |-> "bool", i |-> IF b THEN 1 ELSE 0, s |-> <<>>]

PyText(s) == [t |-> "str", i |-> 0, s |-> s]

\* str(value) / f"{value}"
PyStr(v) ==
    CASE v.t = "none" -> <<"None">>
      [] v.t = "int"  -> <<ToString(v.i)>>
      [] v.t = "bool" -> IF v.i = 1 THEN <<"True">> ELSE <<"False">>
      [] OTHER        -> v.s

\* variant: the roles flag is formatted without lower()
PyStrCapitalized(v) == PyStr(v)

\* str(value).lower() as used for the roles flag
PyStrLower(v) ==
    CASE v.t = "bool" -> IF v.i = 1 THEN <<"true">> ELSE <<"false">>
      [] v.t = "none" -> <<"none">>
      [] OTHER        -> PyStr(v)

----------------------------------------------------------------------------
(* Generic sequence helpers.                                               *)

RECURSIVE Flatten(_)
Flatten(ss) == IF ss = <<>> THEN <<>> ELSE Head(ss) \o Flatten(Tail(ss))

\* str.split(sep): the parts between the occurrences of sep
RECURSIVE SplitOn(_, _)
SplitOn(s, sep) ==
    IF \A i \in 1..Len(s) : s[i] # sep
    THEN <<s>>
    ELSE LET k == CHOOSE i \in 1..Len(s) :
                      s[i] = sep /\ \A j \in 1..(i - 1) : s[j] # sep
         IN  <<SubSeq(s, 1, k - 1)>> \o SplitOn(SubSeq(s, k + 1, Len(s)), sep)

\* sep.join(parts)
RECURSIVE JoinWith(_, _)
JoinWith(parts, sep) ==
    IF parts = <<>> THEN <<>>
    ELSE IF Len(parts) = 1 THEN parts[1]
    ELSE parts[1] \o <<sep>> \o JoinWith(Tail(parts), sep)

\* str.rstrip('/')
RECURSIVE RStrip(_)
RStrip(s) ==
    IF s # <<>> /\ s[Len(s)] = "/" THEN RStrip(SubSeq(s, 1, Len(s) - 1)) ELSE s

\* str.replace(".", "/")
ReplaceDots(s) == [i \in 1..Len(s) |-> IF s[i] = "." THEN "/" ELSE s[i]]

----------------------------------------------------------------------------
(* urllib.parse as the clients use it.                                     *)

Schemes == {"http:", "https:", "ftp:"}

\* the position of the first token of s that is in set, Len(s) + 1 if none
IndexOfFirst(s, set) ==
    IF \E i \in 1..Len(s) : s[i] \in set
    THEN CHOOSE i \in 1..Len(s) : s[i] \in set /\ \A j \in 1..(i - 1) : s[j] \notin set
    ELSE Len(s) + 1

HasScheme(u) == u # <<>> /\ u[1] \in Schemes

HasNetloc(rest) == Len(rest) >= 2 /\ rest[1] = "/" /\ rest[2] = "/"

\* urlparse, last step: path and query of what follows the netloc
ParsePath(scheme, hasNet, netloc, rest) ==
    [scheme |-> scheme, hasNet |-> hasNet, netloc |-> netloc,
     path   |-> SubSeq(rest, 1, IndexOfFirst(rest, {"?"}) - 1),
     query  |-> SubSeq(rest, IndexOfFirst(rest, {"?"}) + 1, Len(rest))]

\* urlparse, after "//": the netloc runs up to the first "/" or "?"
ParseAuthority(scheme, rest) ==
    ParsePath(scheme, TRUE,
              SubSeq(rest, 1, IndexOfFirst(rest, {"/", "?"}) - 1),
              SubSeq(rest, IndexOfFirst(rest, {"/", "?"}), Len(rest)))

\* urlparse, after the scheme
ParseNetloc(scheme, rest) ==
    IF HasNetloc(rest) THEN ParseAuthority(scheme, SubSeq(rest, 3, Len(rest)))
    ELSE ParsePath(scheme, FALSE, <<>>, rest)

\* urlparse: scheme, netloc, path and query of a URL or a relative reference
UrlParse(u) ==
    IF HasScheme(u) THEN ParseNetloc(<<u[1]>>, Tail(u)) ELSE ParseNetloc(<<>>, u)

\* urlunparse: a path that follows a netloc is given its leading slash, and
\* an empty query leaves no "?" behind
UrlUnparse(scheme, hasNet, netloc, path, query) ==
    scheme \o (IF hasNet THEN <<"/", "/">> \o netloc ELSE <<>>)
           \o (IF hasNet /\ path # <<>> /\ path[1] # "/" THEN <<"/">> ELSE <<>>)
           \o path
           \o (IF query # <<>> THEN <<"?">> \o query ELSE <<>>)

IsDotDot(seg) == seg = <<"..">> \/ seg = <<".", ".">>

IsDot(seg) == seg = <<".">>

\* the loop of urljoin that resolves "." and ".." segments
RECURSIVE ResolveDots(_, _)
ResolveDots(segments, acc) ==
    IF segments = <<>> THEN acc
    ELSE LET seg == Head(segments)
         IN  IF IsDotDot(seg)
             THEN ResolveDots(Tail(segments),
                              IF acc = <<>> THEN acc ELSE SubSeq(acc, 1, Len(acc) - 1))
             ELSE IF IsDot(seg) THEN ResolveDots(Tail(segments), acc)
             ELSE ResolveDots(Tail(segments), Append(acc, seg))

\* segments[1:-1] = filter(None, segments[1:-1])
DropEmptyInner(segments) ==
    IF Len(segments) <= 2 THEN segments
    ELSE <<segments[1]>>
         \o SelectSeq(SubSeq(segments, 2, Len(segments) - 1), LAMBDA g : g # <<>>)
         \o <<segments[Len(segments)]>>

\* base_parts of urljoin: the segments of the base path without its last
\* segment when that one is not empty
BaseParts(parts) ==
    IF parts[Len(parts)] # <<>> THEN SubSeq(parts, 1, Len(parts) - 1) ELSE parts

\* segments of urljoin: an absolute path replaces the base path, a relative
\* one is appended to its directory
Segments(bpath, rpath) ==
    IF rpath[1] = "/" THEN SplitOn(rpath, "/")
    ELSE DropEmptyInner(BaseParts(SplitOn(bpath, "/")) \o SplitOn(rpath, "/"))

\* resolved_path of urljoin: a final "." or ".." leaves a trailing slash
Resolved(segments) ==
    IF IsDot(segments[Len(segments)]) \/ IsDotDot(segments[Len(segments)])
    THEN Append(ResolveDots(segments, <<>>), <<>>)
    ELSE ResolveDots(segments, <<>>)

\* '/'.join(resolved_path) or '/'
JoinedPath(resolved) ==
    IF JoinWith(resolved, "/") = <<>> THEN <<"/">> ELSE JoinWith(resolved, "/")

\* urljoin on the parsed base b and the parsed reference r
JoinParsed(b, r, url) ==
    IF r.scheme # <<>> /\ r.scheme # b.scheme THEN url
    ELSE IF r.hasNet
    THEN UrlUnparse(b.scheme, TRUE, r.netloc, r.path, r.query)
    ELSE IF r.path = <<>>
    THEN UrlUnparse(b.scheme, b.hasNet, b.netloc, b.path,
                    IF r.query = <<>> THEN b.query ELSE r.query)
    ELSE UrlUnparse(b.scheme, b.hasNet, b.netloc,
                    JoinedPath(Resolved(Segments(b.path, r.path))), r.query)

\* urljoin(base, url)
UrlJoin(base, url) ==
    IF base = <<>> THEN url
    ELSE IF url = <<>> THEN base
    ELSE JoinParsed(UrlParse(base), UrlParse(url), url)

\* quote_plus of one token: separators are percent-encoded, a space is "+"
QuoteToken(t) ==
    CASE t = " " -> "+"
      [] t = "&" -> "%26"
      [] t = "=" -> "%3D"
      [] t = "/" -> "%2F"
      [] t = "?" -> "%3F"
      [] OTHER   -> t

QuotePlus(s) == [i \in 1..Len(s) |-> QuoteToken(s[i])]

\* urlencode(dict): pairs is the sequence of <<key, value>> in dict order
RECURSIVE UrlEncode(_)
UrlEncode(pairs) ==
    IF pairs = <<>> THEN <<>>
    ELSE LET p == Head(pairs)
             one == QuotePlus(<<p[1]>>) \o <<"=">> \o QuotePlus(p[2])
         IN  IF Len(pairs) = 1 THEN one ELSE one \o <<"&">> \o UrlEncode(Tail(pairs))

----------------------------------------------------------------------------
(* Bootstrap encryption: text is a sequence of code points, data a         *)
(* sequence of bytes, a hex string a sequence of hex digits.               *)

BlockLen == 16

KeyLen == 32

RECURSIVE XorBits(_, _, _)
XorBits(a, b, n) ==
    IF n = 0 THEN 0
    ELSE (((a % 2) + (b % 2)) % 2) + 2 * XorBits(a \div 2, b \div 2, n - 1)

XorByte(a, b) == XorBits(a, b, 8)

\* str.encode('utf-8') for code points below 0x10000
RECURSIVE Utf8Encode(_)
Utf8Encode(text) ==
    IF text = <<>> THEN <<>>
    ELSE LET c == Head(text)
             enc == IF c < 128 THEN <<c>>
                    ELSE IF c < 2048 THEN <<192 + (c \div 64), 128 + (c % 64)>>
                    ELSE <<224 + (c \div 4096), 128 + ((c \div 64) % 64), 128 + (c % 64)>>
         IN  enc \o Utf8Encode(Tail(text))

IsCont(b) == b >= 128 /\ b < 192

\* bytes.decode('utf-8'): ok is FALSE where Python raises UnicodeDecodeError
RECURSIVE Utf8Decode(_)
Utf8Decode(bytes) ==
    IF bytes = <<>> THEN [ok |-> TRUE, text |-> <<>>]
    ELSE LET b == Head(bytes)
             n == IF b < 128 THEN 1
                  ELSE IF b >= 194 /\ b < 224 THEN 2
                  ELSE IF b >= 224 /\ b < 240 THEN 3
                  ELSE 0
         IN  IF n = 0 \/ Len(bytes) < n
                \/ \E i \in 2..n : ~IsCont(bytes[i])
             THEN [ok |-> FALSE, text |-> <<>>]
             ELSE LET cp == IF n = 1 THEN b
                            ELSE IF n = 2 THEN (b - 192) * 64 + (bytes[2] - 128)
                            ELSE (b - 224) * 4096 + (bytes[2] - 128) * 64 + (bytes[3] - 128)
                      rest == Utf8Decode(SubSeq(bytes, n + 1, Len(bytes)))
                  IN  IF n = 3 /\ (cp < 2048 \/ (cp >= 55296 /\ cp < 57344))
                      THEN [ok |-> FALSE, text |-> <<>>]
                      ELSE [ok |-> rest.ok, text |-> IF rest.ok THEN <<cp>> \o rest.text ELSE <<>>]

\* variant: a short secret is padded with its length instead of zero bytes
DeriveKeyLengthPadded(crypto_key) ==
    LET raw == Utf8Encode(crypto_key)
    IN  [i \in 1..KeyLen |-> IF i <= Len(raw) THEN raw[i] ELSE Len(raw)]

\* variant: the secret is truncated to one block before it is padded
DeriveKeyTruncated(crypto_key) ==
    LET raw == Utf8Encode(crypto_key)
    IN  [i \in 1..KeyLen |-> IF i <= Len(raw) /\ i <= BlockLen THEN raw[i] ELSE 0]

\* crypto_key.encode()[:32].ljust(32, b'\0')
DeriveKey(crypto_key) ==
    LET raw == Utf8Encode(crypto_key)
    IN  [i \in 1..KeyLen |-> IF i <= Len(raw) THEN raw[i] ELSE 0]

\* the block cipher under the CFB mode: a keyed function of one block
\* (stands for the library's AES-256 block encryption)
AesEncryptBlock(key, block) ==
    [i \in 1..BlockLen |->
        (key[i] + 3 * key[i + BlockLen] + 5 * block[i]
            + block[(i % BlockLen) + 1] + 11 * i) % 256]

XorPrefix(data, stream) == [i \in 1..Len(data) |-> XorByte(data[i], stream[i])]

\* encryptor.update(data) + finalize() under modes.CFB(iv)
RECURSIVE CfbEncrypt(_, _, _)
CfbEncrypt(key, iv, data) ==
    IF data = <<>> THEN <<>>
    ELSE LET n == IF Len(data) < BlockLen THEN Len(data) ELSE BlockLen
             c == XorPrefix(SubSeq(data, 1, n), AesEncryptBlock(key, iv))
         IN  c \o (IF n < BlockLen THEN <<>>
                   ELSE CfbEncrypt(key, c, SubSeq(data, n + 1, Len(data))))

\* decryptor.update(data) + finalize() under modes.CFB(iv)
RECURSIVE CfbDecrypt(_, _, _)
CfbDecrypt(key, iv, data) ==
    IF data = <<>> THEN <<>>
    ELSE LET n == IF Len(data) < BlockLen THEN Len(data) ELSE BlockLen
             c == SubSeq(data, 1, n)
             p == XorPrefix(c, AesEncryptBlock(key, iv))
         IN  p \o (IF n < BlockLen THEN <<>>
                   ELSE CfbDecrypt(key, c, SubSeq(data, n + 1, Len(data))))

HexDigits == <<"0", "1", "2", "3", "4", "5", "6", "7",
               "8", "9", "a", "b", "c", "d", "e", "f">>

\* bytes.hex()
RECURSIVE ToHex(_)
ToHex(bytes) ==
    IF bytes = <<>> THEN <<>>
    ELSE <<HexDigits[(Head(bytes) \div 16) + 1], HexDigits[(Head(bytes) % 16) + 1]>>
         \o ToHex(Tail(bytes))

IsHexDigit(d) == \E i \in 1..16 : HexDigits[i] = d

HexValue(d) == (CHOOSE i \in 1..16 : HexDigits[i] = d) - 1

\* bytes.fromhex(s): ok is FALSE where Python raises ValueError
RECURSIVE FromHex(_)
FromHex(s) ==
    IF s = <<>> THEN [ok |-> TRUE, bytes |-> <<>>]
    ELSE IF Len(s) < 2 \/ ~IsHexDigit(s[1]) \/ ~IsHexDigit(s[2])
    THEN [ok |-> FALSE, bytes |-> <<>>]
    ELSE LET rest == FromHex(SubSeq(s, 3, Len(s)))
         IN  [ok |-> rest.ok,
              bytes |-> IF rest.ok
                        THEN <<16 * HexValue(s[1]) + HexValue(s[2])>> \o rest.bytes
                        ELSE <<>>]

\* encrypted_buffer[:16]
IvOf(buffer) == SubSeq(buffer, 1, IF Len(buffer) < BlockLen THEN Len(buffer) ELSE BlockLen)

\* variant: the content is taken from the last IV byte on
ContentOfShifted(buffer) == SubSeq(buffer, BlockLen, Len(buffer))

\* encrypted_buffer[16:]
ContentOf(buffer) == SubSeq(buffer, BlockLen + 1, Len(buffer))

\* Bootstrap.bootstrap_encrypt with the IV that os.urandom(16) returned
BootstrapEncrypt(text, crypto_key, iv) ==
    ToHex(iv \o CfbEncrypt(DeriveKey(crypto_key), iv, Utf8Encode(text)))

\* a JSON value: t is its type, s the characters of a scalar (or of the
\* member value of an object), k the member name, vt the member's type
JsonValue(t, s, k, vt) == [t |-> t, s |-> s, k |-> k, vt |-> vt]

NoJson == JsonValue("invalid", <<>>, <<>>, "")

IsDigit(c) == c >= 48 /\ c <= 57

\* a JSON number (digits without a leading zero) or a JSON string
\* (quoted, without quote, backslash or control character inside)
JsonScalar(text) ==
    IF text # <<>> /\ (\A i \in 1..Len(text) : IsDigit(text[i]))
       /\ (Len(text) = 1 \/ text[1] # 48)
    THEN JsonValue("int", text, <<>>, "")
    ELSE IF Len(text) >= 2 /\ text[1] = 34 /\ text[Len(text)] = 34
            /\ \A i \in 2..(Len(text) - 1) : text[i] \notin {34, 92} /\ text[i] >= 32
    THEN JsonValue("str", SubSeq(text, 2, Len(text) - 1), <<>>, "")
    ELSE NoJson

\* json.loads(text): scalars, the empty object and one-member objects;
\* t = "invalid" is where Python raises json.JSONDecodeError
JsonLoads(text) ==
    IF JsonScalar(text).t # "invalid" THEN JsonScalar(text)
    ELSE IF text = <<123, 125>> THEN JsonValue("object", <<>>, <<>>, "")
    ELSE IF Len(text) >= 7 /\ text[1] = 123 /\ text[Len(text)] = 125 /\ text[2] = 34
            /\ \E i \in 3..(Len(text) - 1) : text[i] = 34
    THEN LET q == CHOOSE i \in 3..(Len(text) - 1) :
                      text[i] = 34 /\ \A j \in 3..(i - 1) : text[j] # 34
             key == JsonScalar(SubSeq(text, 2, q))
             val == JsonScalar(SubSeq(text, q + 2, Len(text) - 1))
         IN  IF key.t = "str" /\ text[q + 1] = 58 /\ val.t # "invalid"
             THEN JsonValue("object", val.s, key.s, val.t)
             ELSE NoJson
    ELSE NoJson

\* Bootstrap.bootstrap_decrypt: exc names the exception raised ("" if none),
\* text is the local decrypted_text, value what the method returns
BootstrapDecrypt(encrypted_data, crypto_key) ==
    LET buffer == FromHex(encrypted_data)
        iv == IvOf(buffer.bytes)
        decrypted == CfbDecrypt(DeriveKey(crypto_key), iv, ContentOf(buffer.bytes))
        decoded == Utf8Decode(decrypted)
        value == JsonLoads(decoded.text)
    IN  IF ~buffer.ok THEN [exc |-> "ValueError", text |-> <<>>, value |-> NoJson]
        ELSE IF Len(iv) # BlockLen
        THEN [exc |-> "ValueError", text |-> <<>>, value |-> NoJson]
        ELSE IF ~decoded.ok
        THEN [exc |-> "UnicodeDecodeError", text |-> <<>>, value |-> NoJson]
        ELSE IF value.t = "invalid"
        THEN [exc |-> "JSONDecodeError", text |-> decoded.text, value |-> NoJson]
        ELSE [exc |-> "", text |-> decoded.text, value |-> value]

----------------------------------------------------------------------------
(* The operations of the clients, one row per public method:               *)
(*   verb    the requests function the method calls                         *)
(*   base    the attribute that holds the base URL                          *)
(*   path    the f-string joined onto the base, "$x" being an argument      *)
(*   query   how the query string is built: "items" iterates the mapping,   *)
(*           "attrs" iterates __dict__, "roles" appends the roles flag,     *)
(*           "limit_offset" formats the two positional arguments            *)
(*   auth    the Authorization header: "bearer", "client" (Client secret),  *)
(*           "client_enc" (Client + encrypted key), "bearer_opt" (only      *)
(*           with a token), "none", or "noheaders" (no headers argument)    *)
(*   ser     how the body is produced: payload.dict(), payload.__dict__,    *)
(*           asdict(payload), a dict literal of the arguments, raw data     *)
(*   attr    the path reads an attribute of the payload                     *)
(*   detail  the error branch passes error_res.get("error") as detail       *)
(*   ret     what the success branch returns, rec the record type or the    *)
(*           field, ack the message of a Response acknowledgement           *)
(*   sem     what the method's name says it does                            *)
(*   via     the Roles method a wrapper delegates to ("" otherwise)         *)

Op(cl, name, verb, base, path, query, auth, ser, attr, detail, ret, rec, ack, sem) ==
    [cl |-> cl, name |-> name, via |-> "", verb |-> verb, base |-> base,
     path |-> path, query |-> query, auth |-> auth, ser |-> ser, attr |-> attr,
     detail |-> detail, ret |-> ret, rec |-> rec, ack |-> ack, sem |-> sem]

\* the method name of class cl
IsMethod(op, cl, name) == op.cl = cl /\ op.name = name

\* the arguments a wrapper passes for endpoint and entity_id
RECURSIVE BindEndpoint(_, _, _)
BindEndpoint(path, prefix, entity) ==
    IF path = <<>> THEN <<>>
    ELSE (CASE Head(path) = "$endpoint" -> prefix
            [] Head(path) = "$id"       -> <<entity>>
            [] OTHER                    -> <<Head(path)>>)
         \o BindEndpoint(Tail(path), prefix, entity)

RolesOps == {
    Op("Roles", "list_available_actions", "GET", "url", <<"$endpoint", "/", "roles", "/", "available-actions">>, "none", "bearer", "none", FALSE, FALSE, "field", "available_actions", "", "list"),
    Op("Roles", "create_role", "POST", "url", <<"$endpoint", "/", "$id", "/", "roles">>, "none", "bearer", "literal", FALSE, FALSE, "record", "Role", "", "create"),
    Op("Roles", "list_roles", "GET", "url", <<"$endpoint", "/", "$id", "/", "roles", "?", "$query">>, "attrs", "bearer", "none", FALSE, FALSE, "record", "RolePage", "", "list"),
    Op("Roles", "view_role", "GET", "url", <<"$endpoint", "/", "$id", "/", "roles", "/", "$id2">>, "none", "bearer", "none", FALSE, FALSE, "record", "Role", "", "read"),
    Op("Roles", "update_role", "PUT", "url", <<"$endpoint", "/", "$id", "/", "roles", "/", "$id2">>, "none", "bearer", "dunder_dict", FALSE, FALSE, "record", "Role", "", "update"),
    Op("Roles", "delete_role", "DELETE", "url", <<"$endpoint", "/", "$id", "/", "roles", "/", "$id2">>, "none", "bearer", "none", FALSE, FALSE, "ack", "", "Role deleted successfully", "remove"),
    Op("Roles", "add_role_actions", "POST", "url", <<"$endpoint", "/", "$id", "/", "roles", "/", "$id2", "/", "actions">>, "none", "bearer", "literal", FALSE, FALSE, "field", "actions", "", "other"),
    Op("Roles", "list_role_actions", "GET", "url", <<"$endpoint", "/", "$id", "/", "roles", "/", "$id2", "/", "actions">>, "none", "bearer", "none", FALSE, FALSE, "field", "actions", "", "list"),
    Op("Roles", "delete_role_actions", "POST", "url", <<"$endpoint", "/", "$id", "/", "roles", "/", "$id2", "/", "actions", "/", "delete">>, "none", "bearer", "literal", FALSE, FALSE, "ack", "", "Role actions deleted successfully", "remove"),
    Op("Roles", "delete_all_role_actions", "POST", "url", <<"$endpoint", "/", "$id", "/", "roles", "/", "$id2", "/", "actions", "/", "delete-all">>, "none", "bearer", "none", FALSE, FALSE, "ack", "", "Role actions deleted successfully", "remove"),
    Op("Roles", "add_role_members", "POST", "url", <<"$endpoint", "/", "$id", "/", "roles", "/", "$id2", "/", "members">>, "none", "bearer", "literal", FALSE, FALSE, "field", "members", "", "other"),
    Op("Roles", "list_role_members", "GET", "url", <<"$endpoint", "/", "$id", "/", "roles", "/", "$id2", "/", "members", "?", "$query">>, "attrs", "bearer", "none", FALSE, FALSE, "json", "", "", "list"),
    Op("Roles", "delete_role_members", "POST", "url", <<"$endpoint", "/", "$id", "/", "roles", "/", "$id2", "/", "members", "/", "delete">>, "none", "bearer", "literal", FALSE, FALSE, "ack", "", "Role members deleted successfully", "remove"),
    Op("Roles", "delete_all_role_members", "POST", "url", <<"$endpoint", "/", "$id", "/", "roles", "/", "$id2", "/", "members", "/", "delete-all">>, "none", "bearer", "none", FALSE, FALSE, "ack", "", "Role members deleted successfully", "remove"),
    Op("Roles", "list_entity_members", "GET", "url", <<"$endpoint", "/", "$id", "/", "roles", "/", "members", "?", "$query">>, "attrs", "bearer", "none", FALSE, FALSE, "record", "MemberRolesPage", "", "list") }

\* variant: the wrapper passes the role's ID where the entity's ID belongs
WrapperOtherEntity(cl, name, deleg, base, prefix, entity) ==
    LET h == CHOOSE o \in RolesOps : o.name = deleg
    IN  [h EXCEPT !.cl = cl, !.name = name, !.via = deleg, !.base = base,
                  !.path = BindEndpoint(h.path, prefix, "$id2")]

\* a role method of an entity client: calls the Roles method deleg with the
\* client's base URL, its endpoint prefix and the entity's ID
Wrapper(cl, name, deleg, base, prefix, entity) ==
    LET h == CHOOSE o \in RolesOps : o.name = deleg
    IN  [h EXCEPT !.cl = cl, !.name = name, !.via = deleg, !.base = base,
                  !.path = BindEndpoint(h.path, prefix, entity)]

AlarmsOps == {
    Op("Alarms", "list", "GET", "alarms_url", <<"$domain_id", "/", "alarms", "?", "$query">>, "attrs", "bearer", "none", FALSE, FALSE, "record", "AlarmsPage", "", "list"),
    Op("Alarms", "view", "GET", "alarms_url", <<"$domain_id", "/", "alarms", "/", "$id">>, "none", "bearer", "none", FALSE, FALSE, "record", "Alarm", "", "read"),
    Op("Alarms", "update", "PUT", "alarms_url", <<"$domain_id", "/", "alarms", "/", "$payload.id">>, "none", "bearer", "dunder_dict", TRUE, FALSE, "record", "Alarm", "", "update"),
    Op("Alarms", "delete", "DELETE", "alarms_url", <<"$domain_id", "/", "alarms", "/", "$id">>, "none", "bearer", "none", FALSE, FALSE, "ack", "", "Alarm deleted successfully", "remove") }

BootstrapOps == {
    Op("Bootstrap", "add_bootstrap", "POST", "bootstrap_url", <<"$domain_id", "/", "clients", "/", "configs">>, "none", "bearer", "dunder_dict", FALSE, TRUE, "ack", "", "Bootstrap configuration created", "create"),
    Op("Bootstrap", "whitelist", "PUT", "bootstrap_url", <<"$domain_id", "/", "clients", "/", "state", "/", "$payload.client_id">>, "none", "bearer", "literal", TRUE, TRUE, "ack", "", "Bootstrap configuration state updated successfully", "update"),
    Op("Bootstrap", "update_bootstrap", "PUT", "bootstrap_url", <<"$domain_id", "/", "clients", "/", "configs", "/", "$payload.client_id">>, "none", "bearer", "dunder_dict", TRUE, TRUE, "ack", "", "Bootstrap configuration updated successfully", "update"),
    Op("Bootstrap", "view_bootstrap", "GET", "bootstrap_url", <<"$domain_id", "/", "clients", "/", "configs", "/", "$id">>, "none", "bearer", "none", FALSE, TRUE, "json", "", "", "read"),
    Op("Bootstrap", "update_bootstrap_certs", "PATCH", "bootstrap_url", <<"$domain_id", "/", "clients", "/", "configs", "/", "certs", "/", "$payload.client_id">>, "none", "bearer", "dunder_dict", TRUE, TRUE, "json", "", "", "update"),
    Op("Bootstrap", "delete_bootstrap", "DELETE", "bootstrap_url", <<"$domain_id", "/", "clients", "/", "configs", "/", "$id">>, "none", "bearer", "none", FALSE, TRUE, "ack", "", "Bootstrap configuration deleted", "remove"),
    Op("Bootstrap", "bootstrap", "GET", "bootstrap_url", <<"clients", "/", "bootstrap", "/", "$id">>, "none", "client", "none", FALSE, TRUE, "json", "", "", "read"),
    Op("Bootstrap", "bootstraps", "GET", "bootstrap_url", <<"$domain_id", "/", "clients", "/", "configs", "?", "$query">>, "attrs", "bearer", "none", FALSE, TRUE, "json", "", "", "list"),
    Op("Bootstrap", "update_bootstrap_connection", "PUT", "bootstrap_url", <<"$domain_id", "/", "clients", "/", "configs", "/", "connections", "/", "$id">>, "none", "bearer", "literal", FALSE, TRUE, "ack", "", "Bootstrap connection successful", "update"),
    Op("Bootstrap", "secure_bootstrap", "GET", "bootstrap_url", <<"clients", "/", "bootstrap", "/", "secure", "/", "$id">>, "none", "client_enc", "none", FALSE, TRUE, "decrypt", "", "", "read") }

CertsOps == {
    Op("Certs", "issue_cert", "POST", "certs_url", <<"$domain_id", "/", "certs">>, "none", "bearer", "literal", FALSE, FALSE, "record", "Cert", "", "create"),
    Op("Certs", "view_cert_by_client", "GET", "certs_url", <<"$domain_id", "/", "serials", "/", "$id">>, "none", "bearer", "none", FALSE, FALSE, "record", "CertsPage", "", "read"),
    Op("Certs", "view_cert", "GET", "certs_url", <<"$domain_id", "/", "certs", "/", "$id">>, "none", "bearer", "none", FALSE, FALSE, "record", "Cert", "", "read"),
    Op("Certs", "revoke_cert", "DELETE", "certs_url", <<"$domain_id", "/", "certs", "/", "$id">>, "none", "bearer", "none", FALSE, FALSE, "ack", "", "Cert revoked successfully", "remove") }

ChannelsOps == {
    Op("Channels", "create_channel", "POST", "channels_url", <<"$payload.domain_id", "/", "channels">>, "none", "bearer", "asdict", TRUE, TRUE, "json", "", "", "create"),
    Op("Channels", "channel", "GET", "channels_url", <<"$domain_id", "/", "channels", "/", "$id">>, "roles", "bearer", "none", FALSE, TRUE, "json", "", "", "read"),
    Op("Channels", "create_channels", "POST", "channels_url", <<"$domain_id", "/", "channels", "/", "bulk">>, "none", "bearer", "dict_method", FALSE, TRUE, "json", "", "", "create"),
    Op("Channels", "channels", "GET", "channels_url", <<"$domain_id", "/", "channels", "?", "limit", "=", "$limit", "&", "offset", "=", "$offset">>, "limit_offset", "bearer", "none", FALSE, TRUE, "json", "", "", "list"),
    Op("Channels", "update_channel", "PATCH", "channels_url", <<"$payload.domain_id", "/", "channels", "/", "$payload.id">>, "none", "bearer", "asdict", TRUE, TRUE, "json", "", "", "update"),
    Op("Channels", "update_channel_tags", "PATCH", "channels_url", <<"$domain_id", "/", "channels", "/", "$payload.id", "/", "tags">>, "none", "bearer", "dict_method", TRUE, TRUE, "json", "", "", "update"),
    Op("Channels", "disable_channel", "POST", "channels_url", <<"$domain_id", "/", "channels", "/", "$id", "/", "disable">>, "none", "bearer", "none", FALSE, TRUE, "json", "", "", "disable"),
    Op("Channels", "enable_channel", "POST", "channels_url", <<"$domain_id", "/", "channels", "/", "$id", "/", "enable">>, "none", "bearer", "none", FALSE, TRUE, "json", "", "", "enable"),
    Op("Channels", "delete_channel", "DELETE", "channels_url", <<"$domain_id", "/", "channels", "/", "$id">>, "none", "bearer", "none", FALSE, TRUE, "ack", "", "Channel deleted successfully", "remove"),
    Op("Channels", "connect_client", "POST", "channels_url", <<"$domain_id", "/", "channels", "/", "$id", "/", "connect">>, "none", "bearer", "literal", FALSE, TRUE, "ack", "", "Clients connected successfully", "other"),
    Op("Channels", "connect", "POST", "channels_url", <<"$domain_id", "/", "channels", "/", "connect">>, "none", "bearer", "literal", FALSE, TRUE, "ack", "", "Clients connected successfully", "other"),
    Op("Channels", "disconnect", "POST", "channels_url", <<"$domain_id", "/", "channels", "/", "disconnect">>, "none", "bearer", "literal", FALSE, TRUE, "ack", "", "Clients disconnected successfully", "other"),
    Op("Channels", "disconnect_client", "POST", "channels_url", <<"$domain_id", "/", "channels", "/", "$id", "/", "disconnect">>, "none", "bearer", "literal", FALSE, TRUE, "ack", "", "Clients disconnected successfully", "other"),
    Op("Channels", "set_channel_parent_group", "POST", "channels_url", <<"$domain_id", "/", "channels", "/", "$id", "/", "parent">>, "none", "bearer", "literal", FALSE, TRUE, "ack", "", "Channel group parent added successfully", "other"),
    Op("Channels", "delete_channel_parent_group", "DELETE", "channels_url", <<"$domain_id", "/", "channels", "/", "$id", "/", "parent">>, "none", "bearer", "none", FALSE, TRUE, "ack", "", "Channel group parent deleted successfully", "remove") }

ChannelsRoleOps == {
    Wrapper("Channels", "list_channel_actions", "list_available_actions", "channels_url", <<"$domain_id", "/", "channels">>, "$id"),
    Wrapper("Channels", "create_channel_role", "create_role", "channels_url", <<"$domain_id", "/", "channels">>, "$id"),
    Wrapper("Channels", "list_channel_roles", "list_roles", "channels_url", <<"$domain_id", "/", "channels">>, "$id"),
    Wrapper("Channels", "view_channel_role", "view_role", "channels_url", <<"$domain_id", "/", "channels">>, "$id"),
    Wrapper("Channels", "update_channel_role", "update_role", "channels_url", <<"$domain_id", "/", "channels">>, "$id"),
    Wrapper("Channels", "delete_channel_role", "delete_role", "channels_url", <<"$domain_id", "/", "channels">>, "$id"),
    Wrapper("Channels", "add_channel_role_actions", "add_role_actions", "channels_url", <<"$domain_id", "/", "channels">>, "$id"),
    Wrapper("Channels", "list_channel_role_actions", "list_role_actions", "channels_url", <<"$domain_id", "/", "channels">>, "$id"),
    Wrapper("Channels", "delete_channel_role_actions", "delete_role_actions", "channels_url", <<"$domain_id", "/", "channels">>, "$id"),
    Wrapper("Channels", "delete_all_channel_role_actions", "delete_all_role_actions", "channels_url", <<"$domain_id", "/", "channels">>, "$id"),
    Wrapper("Channels", "add_channel_role_members", "add_role_members", "channels_url", <<"$domain_id", "/", "channels">>, "$id"),
    Wrapper("Channels", "list_channel_role_members", "list_role_members", "channels_url", <<"$domain_id", "/", "channels">>, "$id"),
    Wrapper("Channels", "delete_channel_role_members", "delete_role_members", "channels_url", <<"$domain_id", "/", "channels">>, "$id"),
    Wrapper("Channels", "delete_all_channel_role_members", "delete_all_role_members", "channels_url", <<"$domain_id", "/", "channels">>, "$id"),
    Wrapper("Channels", "list_channel_members", "list_entity_members", "channels_url", <<"$domain_id", "/", "channels">>, "$id") }

ClientsOps == {
    Op("Clients", "create_client", "POST", "clients_url", <<"$domain_id", "/", "clients">>, "none", "bearer", "dict_method", FALSE, FALSE, "record", "Client", "", "create"),
    Op("Clients", "create_clients", "POST", "clients_url", <<"$domain_id", "/", "clients", "/", "bulk">>, "none", "bearer", "dict_method", FALSE, FALSE, "record", "ClientsPage", "", "create"),
    Op("Clients", "enable", "POST", "clients_url", <<"$domain_id", "/", "clients", "/", "$id", "/", "enable">>, "none", "bearer", "none", FALSE, FALSE, "record", "Client", "", "enable"),
    Op("Clients", "disable", "POST", "clients_url", <<"$domain_id", "/", "clients", "/", "$id", "/", "disable">>, "none", "bearer", "none", FALSE, FALSE, "record", "Client", "", "disable"),
    Op("Clients", "update_client", "PATCH", "clients_url", <<"$domain_id", "/", "clients", "/", "$payload.id">>, "none", "bearer", "dict_method", TRUE, FALSE, "record", "Client", "", "update"),
    Op("Clients", "update_client_secret", "PATCH", "clients_url", <<"$domain_id", "/", "clients", "/", "$payload.id", "/", "secret">>, "none", "bearer", "literal", TRUE, FALSE, "record", "Client", "", "update"),
    Op("Clients", "update_client_tags", "PATCH", "clients_url", <<"$domain_id", "/", "clients", "/", "$payload.id", "/", "tags">>, "none", "bearer", "dict_method", TRUE, FALSE, "record", "Client", "", "update"),
    Op("Clients", "client", "GET", "clients_url", <<"$domain_id", "/", "clients", "/", "$id">>, "roles", "bearer", "none", FALSE, FALSE, "record", "Client", "", "read"),
    Op("Clients", "clients", "GET", "clients_url", <<"$domain_id", "/", "clients", "?", "$query">>, "items", "bearer", "none", FALSE, FALSE, "record", "ClientsPage", "", "list"),
    Op("Clients", "set_client_parent_group", "POST", "clients_url", <<"$domain_id", "/", "clients", "/", "$id", "/", "parent">>, "none", "bearer", "literal", FALSE, FALSE, "ack", "", "Client group parent added successfully", "other"),
    Op("Clients", "delete_client_parent_group", "DELETE", "clients_url", <<"$domain_id", "/", "clients", "/", "$id", "/", "parent">>, "none", "bearer", "none", FALSE, FALSE, "ack", "", "Client group parent deleted successfully", "remove"),
    Op("Clients", "delete_client", "DELETE", "clients_url", <<"$domain_id", "/", "clients", "/", "$id">>, "none", "bearer", "none", FALSE, FALSE, "ack", "", "Client deleted successfully", "remove") }

ClientsRoleOps == {
    Wrapper("Clients", "list_client_actions", "list_available_actions", "clients_url", <<"$domain_id", "/", "clients">>, "$id"),
    Wrapper("Clients", "create_client_role", "create_role", "clients_url", <<"$domain_id", "/", "clients">>, "$id"),
    Wrapper("Clients", "list_client_roles", "list_roles", "clients_url", <<"$domain_id", "/", "clients">>, "$id"),
    Wrapper("Clients", "view_client_role", "view_role", "clients_url", <<"$domain_id", "/", "clients">>, "$id"),
    Wrapper("Clients", "update_client_role", "update_role", "clients_url", <<"$domain_id", "/", "clients">>, "$id"),
    Wrapper("Clients", "delete_client_role", "delete_role", "clients_url", <<"$domain_id", "/", "clients">>, "$id"),
    Wrapper("Clients", "add_client_role_actions", "add_role_actions", "clients_url", <<"$domain_id", "/", "clients">>, "$id"),
    Wrapper("Clients", "list_client_role_actions", "list_role_actions", "clients_url", <<"$domain_id", "/", "clients">>, "$id"),
    Wrapper("Clients", "delete_client_role_actions", "delete_role_actions", "clients_url", <<"$domain_id", "/", "clients">>, "$id"),
    Wrapper("Clients", "delete_all_client_role_actions", "delete_all_role_actions", "clients_url", <<"$domain_id", "/", "clients">>, "$id"),
    Wrapper("Clients", "add_client_role_members", "add_role_members", "clients_url", <<"$domain_id", "/", "clients">>, "$id"),
    Wrapper("Clients", "list_client_role_members", "list_role_members", "clients_url", <<"$domain_id", "/", "clients">>, "$id"),
    Wrapper("Clients", "delete_client_role_members", "delete_role_members", "clients_url", <<"$domain_id", "/", "clients">>, "$id"),
    Wrapper("Clients", "delete_all_client_role_members", "delete_all_role_members", "clients_url", <<"$domain_id", "/", "clients">>, "$id"),
    Wrapper("Clients", "list_client_members", "list_entity_members", "clients_url", <<"$domain_id", "/", "clients">>, "$id") }

DomainsOps == {
    Op("Domains", "create_domain", "POST", "domains_url", <<"domains">>, "none", "bearer", "dict_method", FALSE, FALSE, "record", "Domain", "", "create"),
    Op("Domains", "update_domain", "PATCH", "domains_url", <<"domains", "/", "$payload.id">>, "none", "bearer", "dict_method", TRUE, FALSE, "record", "Domain", "", "update"),
    Op("Domains", "domain", "GET", "domains_url", <<"domains", "/", "$domain_id">>, "roles", "bearer", "none", FALSE, FALSE, "record", "Domain", "", "read"),
    Op("Domains", "domains", "GET", "domains_url", <<"domains", "?", "$query">>, "items", "bearer", "none", FALSE, FALSE, "record", "DomainsPage", "", "list"),
    Op("Domains", "list_user_domains", "GET", "domains_url", <<"users", "/", "$id", "/", "domains", "?", "$query">>, "items", "bearer", "none", FALSE, FALSE, "record", "DomainsPage", "", "list"),
    Op("Domains", "enable_domain", "POST", "domains_url", <<"domains", "/", "$domain_id", "/", "enable">>, "none", "bearer", "none", FALSE, FALSE, "ack", "", "Domain enabled successfully", "enable"),
    Op("Domains", "disable_domain", "POST", "domains_url", <<"domains", "/", "$domain_id", "/", "disable">>, "none", "bearer", "none", FALSE, FALSE, "ack", "", "Domain disabled successfully", "disable"),
    Op("Domains", "freeze_domain", "POST", "domains_url", <<"domains", "/", "$domain_id", "/", "freeze">>, "none", "bearer", "none", FALSE, FALSE, "ack", "", "Domain frozen successfully", "other"),
    Op("Domains", "send_invitation", "POST", "domains_url", <<"domains", "/", "$domain_id", "/", "invitations">>, "none", "bearer", "literal", FALSE, FALSE, "ack", "", "Invitation sent successfully", "other"),
    Op("Domains", "view_invitation", "GET", "domains_url", <<"domains", "/", "$domain_id", "/", "invitations", "/", "$id">>, "none", "bearer", "none", FALSE, FALSE, "record", "Invitation", "", "read"),
    Op("Domains", "list_domain_invitations", "GET", "domains_url", <<"domains", "/", "$domain_id", "/", "invitations", "?", "$query">>, "items", "bearer", "none", FALSE, FALSE, "record", "InvitationsPage", "", "list"),
    Op("Domains", "list_user_invitations", "GET", "domains_url", <<"invitations", "?", "$query">>, "items", "bearer", "none", FALSE, FALSE, "record", "InvitationsPage", "", "list"),
    Op("Domains", "accept_invitation", "POST", "domains_url", <<"invitations", "/", "accept">>, "none", "bearer", "literal", FALSE, FALSE, "ack", "", "Invitation accepted successfully", "other"),
    Op("Domains", "reject_invitation", "POST", "domains_url", <<"invitations", "/", "reject">>, "none", "bearer", "literal", FALSE, FALSE, "ack", "", "Invitation rejected successfully", "other"),
    Op("Domains", "delete_invitation", "DELETE", "domains_url", <<"domains", "/", "$domain_id", "/", "invitations", "/", "$id">>, "none", "bearer", "none", FALSE, FALSE, "ack", "", "Invitation deleted successfully", "remove") }

DomainsRoleOps == {
    Wrapper("Domains", "list_domain_actions", "list_available_actions", "domains_url", <<"domains">>, "$id"),
    Wrapper("Domains", "create_domain_role", "create_role", "domains_url", <<"domains">>, "$domain_id"),
    Wrapper("Domains", "list_domain_roles", "list_roles", "domains_url", <<"domains">>, "$domain_id"),
    Wrapper("Domains", "view_domain_role", "view_role", "domains_url", <<"domains">>, "$domain_id"),
    Wrapper("Domains", "update_domain_role", "update_role", "domains_url", <<"domains">>, "$domain_id"),
    Wrapper("Domains", "delete_domain_role", "delete_role", "domains_url", <<"domains">>, "$domain_id"),
    Wrapper("Domains", "add_domain_role_actions", "add_role_actions", "domains_url", <<"domains">>, "$domain_id"),
    Wrapper("Domains", "list_domain_role_actions", "list_role_actions", "domains_url", <<"domains">>, "$domain_id"),
    Wrapper("Domains", "delete_domain_role_actions", "delete_role_actions", "domains_url", <<"domains">>, "$domain_id"),
    Wrapper("Domains", "delete_all_domain_role_actions", "delete_all_role_actions", "domains_url", <<"domains">>, "$domain_id"),
    Wrapper("Domains", "add_domain_role_members", "add_role_members", "domains_url", <<"domains">>, "$domain_id"),
    Wrapper("Domains", "list_domain_role_members", "list_role_members", "domains_url", <<"domains">>, "$domain_id"),
    Wrapper("Domains", "delete_domain_role_members", "delete_role_members", "domains_url", <<"domains">>, "$domain_id"),
    Wrapper("Domains", "delete_all_domain_role_members", "delete_all_role_members", "domains_url", <<"domains">>, "$domain_id"),
    Wrapper("Domains", "list_domain_members", "list_entity_members", "domains_url", <<"domains">>, "$domain_id") }

GroupsOps == {
    Op("Groups", "create_group", "POST", "groups_url", <<"$domain_id", "/", "groups">>, "none", "bearer", "dict_method", FALSE, FALSE, "record", "Group", "", "create"),
    Op("Groups", "group", "GET", "groups_url", <<"$domain_id", "/", "groups", "/", "$id">>, "roles", "bearer", "none", FALSE, FALSE, "record", "Group", "", "read"),
    Op("Groups", "groups", "GET", "groups_url", <<"$domain_id", "/", "groups", "?", "$query">>, "items", "bearer", "none", FALSE, FALSE, "record", "GroupsPage", "", "list"),
    Op("Groups", "update_group", "PUT", "groups_url", <<"$domain_id", "/", "groups", "/", "$payload.id">>, "none", "bearer", "dict_method", TRUE, FALSE, "record", "Group", "", "update"),
    Op("Groups", "enable_group", "POST", "groups_url", <<"$domain_id", "/", "groups", "/", "$id", "/", "enable">>, "none", "bearer", "none", FALSE, FALSE, "record", "Group", "", "enable"),
    Op("Groups", "disable_group", "POST", "groups_url", <<"$domain_id", "/", "groups", "/", "$id", "/", "disable">>, "none", "bearer", "none", FALSE, FALSE, "record", "Group", "", "disable"),
    Op("Groups", "delete_group", "DELETE", "groups_url", <<"$domain_id", "/", "groups", "/", "$id">>, "none", "bearer", "none", FALSE, FALSE, "ack", "", "Group deleted successfully", "remove"),
    Op("Groups", "retrieve_group_hierarchy", "GET", "groups_url", <<"$domain_id", "/", "groups", "/", "$id", "/", "hierarchy", "?", "$query">>, "items", "bearer", "none", FALSE, FALSE, "record", "HierarchyPage", "", "list"),
    Op("Groups", "add_parent_group", "POST", "groups_url", <<"$domain_id", "/", "groups", "/", "$id", "/", "parent">>, "none", "bearer", "literal", FALSE, FALSE, "ack", "", "Parent added successfully", "other"),
    Op("Groups", "remove_parent_group", "DELETE", "groups_url", <<"$domain_id", "/", "groups", "/", "$id", "/", "parent">>, "none", "bearer", "none", FALSE, FALSE, "ack", "", "Parent removed successfully", "remove"),
    Op("Groups", "add_children_groups", "POST", "groups_url", <<"$domain_id", "/", "groups", "/", "$id", "/", "children">>, "none", "bearer", "literal", FALSE, FALSE, "ack", "", "Children added successfully", "other"),
    Op("Groups", "remove_children_groups", "DELETE", "groups_url", <<"$domain_id", "/", "groups", "/", "$id", "/", "children">>, "none", "bearer", "literal", FALSE, FALSE, "ack", "", "Children removed successfully", "remove"),
    Op("Groups", "remove_all_children_groups", "DELETE", "groups_url", <<"$domain_id", "/", "groups", "/", "$id", "/", "children", "/", "all">>, "none", "bearer", "none", FALSE, FALSE, "ack", "", "All children removed successfully", "remove"),
    Op("Groups", "list_children_groups", "GET", "groups_url", <<"$domain_id", "/", "groups", "/", "$id", "/", "children", "?", "$query">>, "items", "bearer", "none", FALSE, FALSE, "record", "GroupsPage", "", "list") }

GroupsRoleOps == {
    Wrapper("Groups", "list_group_actions", "list_available_actions", "groups_url", <<"$domain_id", "/", "groups">>, "$id"),
    Wrapper("Groups", "create_group_role", "create_role", "groups_url", <<"$domain_id", "/", "groups">>, "$id"),
    Wrapper("Groups", "list_group_roles", "list_roles", "groups_url", <<"$domain_id", "/", "groups">>, "$id"),
    Wrapper("Groups", "view_group_role", "view_role", "groups_url", <<"$domain_id", "/", "groups">>, "$id"),
    Wrapper("Groups", "update_group_role", "update_role", "groups_url", <<"$domain_id", "/", "groups">>, "$id"),
    Wrapper("Groups", "delete_group_role", "delete_role", "groups_url", <<"$domain_id", "/", "groups">>, "$id"),
    Wrapper("Groups", "add_group_role_actions", "add_role_actions", "groups_url", <<"$domain_id", "/", "groups">>, "$id"),
    Wrapper("Groups", "list_group_role_actions", "list_role_actions", "groups_url", <<"$domain_id", "/", "groups">>, "$id"),
    Wrapper("Groups", "delete_group_role_actions", "delete_role_actions", "groups_url", <<"$domain_id", "/", "groups">>, "$id"),
    Wrapper("Groups", "delete_all_group_role_actions", "delete_all_role_actions", "groups_url", <<"$domain_id", "/", "groups">>, "$id"),
    Wrapper("Groups", "add_group_role_members", "add_role_members", "groups_url", <<"$domain_id", "/", "groups">>, "$id"),
    Wrapper("Groups", "list_group_role_members", "list_role_members", "groups_url", <<"$domain_id", "/", "groups">>, "$id"),
    Wrapper("Groups", "delete_group_role_members", "delete_role_members", "groups_url", <<"$domain_id", "/", "groups">>, "$id"),
    Wrapper("Groups", "delete_all_group_role_members", "delete_all_role_members", "groups_url", <<"$domain_id", "/", "groups">>, "$id"),
    Wrapper("Groups", "list_group_members", "list_entity_members", "groups_url", <<"$domain_id", "/", "groups">>, "$id") }

HealthOps == {
    Op("Health", "health", "GET", "service", <<"health">>, "none", "noheaders", "none", FALSE, FALSE, "record", "HealthInfo", "", "read") }

JournalsOps == {
    Op("Journals", "entity_journals", "GET", "journals_url", <<"$domain_id", "/", "journal", "/", "$id", "/", "$id2", "?", "$query">>, "attrs", "bearer", "none", FALSE, TRUE, "json", "", "", "list"),
    Op("Journals", "user_journals", "GET", "journals_url", <<"journal", "/", "user", "/", "$id", "?", "$query">>, "attrs", "bearer", "none", FALSE, TRUE, "json", "", "", "list"),
    Op("Journals", "client_telemetry", "GET", "journals_url", <<"$domain_id", "/", "journal", "/", "client", "/", "$id", "/", "telemetry">>, "none", "bearer", "none", FALSE, TRUE, "json", "", "", "read") }

MessagesOps == {
    Op("Messages", "send", "POST", "http_adapter_url", <<"m", "/", "$domain_id", "/", "c", "/", "$chan_id", "/", "$subtopic">>, "none", "client", "raw", FALSE, TRUE, "ack", "", "Message sent successfully", "other"),
    Op("Messages", "read", "GET", "readers_url", <<"$domain_id", "/", "channels", "/", "$read_chan", "/", "messages", "$subtopic_part", "?", "$query">>, "attrs", "bearer", "none", FALSE, TRUE, "json", "", "", "list") }

PATsOps == {
    Op("PATs", "create_pat", "POST", "auth_url", <<"pats">>, "none", "bearer", "literal", FALSE, FALSE, "record", "PAT", "", "create"),
    Op("PATs", "list_pats", "GET", "auth_url", <<"pats", "?", "$query">>, "attrs", "bearer", "none", FALSE, FALSE, "record", "PATsPage", "", "list"),
    Op("PATs", "view_pat", "GET", "auth_url", <<"pats", "/", "$id">>, "none", "bearer", "none", FALSE, FALSE, "record", "PAT", "", "read"),
    Op("PATs", "delete_all_pats", "DELETE", "auth_url", <<"pats">>, "none", "bearer", "none", FALSE, FALSE, "ack", "", "PATs deleted successfully", "remove"),
    Op("PATs", "update_name", "PATCH", "auth_url", <<"pats", "/", "$id", "/", "name">>, "none", "bearer", "literal", FALSE, FALSE, "record", "PAT", "", "update"),
    Op("PATs", "update_description", "PATCH", "auth_url", <<"pats", "/", "$id", "/", "description">>, "none", "bearer", "literal", FALSE, FALSE, "record", "PAT", "", "update"),
    Op("PATs", "delete_pat", "DELETE", "auth_url", <<"pats", "/", "$id">>, "none", "bearer", "none", FALSE, FALSE, "ack", "", "PAT deleted successfully", "remove"),
    Op("PATs", "reset_secret", "PATCH", "auth_url", <<"pats", "/", "$id", "/", "secret", "/", "reset">>, "none", "bearer", "literal", FALSE, FALSE, "record", "PAT", "", "other"),
    Op("PATs", "revoke_pat", "PATCH", "auth_url", <<"pats", "/", "$id", "/", "secret", "/", "revoke">>, "none", "bearer", "none", FALSE, FALSE, "ack", "", "PAT revoked successfully", "other"),
    Op("PATs", "add_scope", "PATCH", "auth_url", <<"pats", "/", "$id", "/", "scope", "/", "add">>, "none", "bearer", "literal", FALSE, FALSE, "ack", "", "Scope added successfully", "other"),
    Op("PATs", "list_scopes", "GET", "auth_url", <<"pats", "/", "$id", "/", "scope", "?", "$query">>, "attrs", "bearer", "none", FALSE, FALSE, "record", "ScopesPage", "", "list"),
    Op("PATs", "delete_scopes", "PATCH", "auth_url", <<"pats", "/", "$id", "/", "scope", "/", "remove">>, "none", "bearer", "literal", FALSE, FALSE, "ack", "", "Scopes removed successfully", "remove"),
    Op("PATs", "delete_all_scopes", "DELETE", "auth_url", <<"pats", "/", "$id", "/", "scope">>, "none", "bearer", "none", FALSE, FALSE, "ack", "", "All scopes deleted successfully", "remove") }

ReportsOps == {
    Op("Reports", "generate_report", "POST", "reports_url", <<"$domain_id", "/", "reports">>, "none", "bearer", "dunder_dict", FALSE, TRUE, "json", "", "", "other"),
    Op("Reports", "add_report_config", "POST", "reports_url", <<"$domain_id", "/", "reports", "/", "configs">>, "none", "bearer", "dunder_dict", FALSE, TRUE, "json", "", "", "create"),
    Op("Reports", "view_report_config", "GET", "reports_url", <<"$domain_id", "/", "reports", "/", "configs", "/", "$id">>, "none", "bearer", "none", FALSE, TRUE, "json", "", "", "read"),
    Op("Reports", "list_report_configs", "GET", "reports_url", <<"$domain_id", "/", "reports", "/", "configs", "?", "$query">>, "attrs", "bearer", "none", FALSE, TRUE, "json", "", "", "list"),
    Op("Reports", "update_report_config", "PATCH", "reports_url", <<"$domain_id", "/", "reports", "/", "configs", "/", "$payload.id">>, "none", "bearer", "dunder_dict", TRUE, TRUE, "json", "", "", "update"),
    Op("Reports", "update_report_schedule", "PATCH", "reports_url", <<"$domain_id", "/", "reports", "/", "configs", "/", "$id", "/", "schedule">>, "none", "bearer", "literal", FALSE, TRUE, "json", "", "", "update"),
    Op("Reports", "delete_report_config", "DELETE", "reports_url", <<"$domain_id", "/", "reports", "/", "configs", "/", "$id">>, "none", "bearer", "none", FALSE, TRUE, "ack", "", "Report config deleted successfully", "remove"),
    Op("Reports", "enable_report_config", "POST", "reports_url", <<"$domain_id", "/", "reports", "/", "configs", "/", "$id", "/", "enable">>, "none", "bearer", "none", FALSE, TRUE, "json", "", "", "enable"),
    Op("Reports", "disable_report_config", "POST", "reports_url", <<"$domain_id", "/", "reports", "/", "configs", "/", "$id", "/", "disable">>, "none", "bearer", "none", FALSE, TRUE, "record", "ReportConfig", "", "disable"),
    Op("Reports", "update_report_template", "PUT", "reports_url", <<"$domain_id", "/", "reports", "/", "configs", "/", "$id", "/", "template">>, "none", "bearer", "literal", FALSE, TRUE, "none", "", "", "update"),
    Op("Reports", "view_report_template", "GET", "reports_url", <<"$domain_id", "/", "reports", "/", "configs", "/", "$id", "/", "template">>, "none", "bearer", "none", FALSE, TRUE, "json", "", "", "read"),
    Op("Reports", "delete_report_template", "DELETE", "reports_url", <<"$domain_id", "/", "reports", "/", "configs", "/", "$id", "/", "template">>, "none", "bearer", "none", FALSE, TRUE, "none", "", "", "remove") }

RulesOps == {
    Op("Rules", "create", "POST", "rules_url", <<"$domain_id", "/", "rules">>, "none", "bearer", "dict_method", FALSE, TRUE, "json", "", "", "create"),
    Op("Rules", "view", "GET", "rules_url", <<"$domain_id", "/", "rules", "/", "$id">>, "none", "bearer", "none", FALSE, TRUE, "json", "", "", "read"),
    Op("Rules", "list", "GET", "rules_url", <<"$domain_id", "/", "rules", "?", "$query">>, "items", "bearer", "none", FALSE, TRUE, "json", "", "", "list"),
    Op("Rules", "update", "PATCH", "rules_url", <<"$domain_id", "/", "rules", "/", "$payload.id">>, "none", "bearer", "dict_method", TRUE, TRUE, "json", "", "", "update"),
    Op("Rules", "update_tags", "PATCH", "rules_url", <<"$domain_id", "/", "rules", "/", "$id", "/", "tags">>, "none", "bearer", "literal", FALSE, TRUE, "json", "", "", "update"),
    Op("Rules", "update_schedule", "PATCH", "rules_url", <<"$domain_id", "/", "rules", "/", "$id", "/", "schedule">>, "none", "bearer", "lit_dict_method", FALSE, TRUE, "json", "", "", "update"),
    Op("Rules", "delete", "DELETE", "rules_url", <<"$domain_id", "/", "rules", "/", "$id">>, "none", "bearer", "none", FALSE, TRUE, "ack", "", "Rule deleted successfully", "remove"),
    Op("Rules", "enable", "POST", "rules_url", <<"$domain_id", "/", "rules", "/", "$id", "/", "enable">>, "none", "bearer", "none", FALSE, TRUE, "json", "", "", "enable"),
    Op("Rules", "disable", "POST", "rules_url", <<"$domain_id", "/", "rules", "/", "$id", "/", "disable">>, "none", "bearer", "none", FALSE, TRUE, "json", "", "", "disable") }

UsersOps == {
    Op("Users", "create", "POST", "users_url", <<"users">>, "none", "bearer_opt", "dict_method", FALSE, FALSE, "record", "User", "", "create"),
    Op("Users", "create_token", "POST", "users_url", <<"users", "/", "tokens", "/", "issue">>, "none", "none", "dict_method", FALSE, FALSE, "record", "Token", "", "create"),
    Op("Users", "refresh_token", "POST", "users_url", <<"users", "/", "tokens", "/", "refresh">>, "none", "bearer", "none", FALSE, FALSE, "record", "Token", "", "other"),
    Op("Users", "update", "PATCH", "users_url", <<"users", "/", "$payload.id">>, "none", "bearer", "dict_method", TRUE, FALSE, "record", "User", "", "update"),
    Op("Users", "update_email", "PATCH", "users_url", <<"users", "/", "$payload.id", "/", "email">>, "none", "bearer", "literal", TRUE, FALSE, "record", "User", "", "update"),
    Op("Users", "update_username", "PATCH", "users_url", <<"users", "/", "$payload.id", "/", "username">>, "none", "bearer", "literal", TRUE, FALSE, "record", "User", "", "update"),
    Op("Users", "update_profile_picture", "PATCH", "users_url", <<"users", "/", "$payload.id", "/", "picture">>, "none", "bearer", "literal", TRUE, FALSE, "record", "User", "", "update"),
    Op("Users", "update_user_tags", "PATCH", "users_url", <<"users", "/", "$payload.id", "/", "tags">>, "none", "bearer", "dict_method", TRUE, FALSE, "record", "User", "", "update"),
    Op("Users", "update_user_password", "PATCH", "users_url", <<"users", "/", "secret">>, "none", "bearer", "literal", FALSE, FALSE, "record", "User", "", "update"),
    Op("Users", "update_user_role", "PATCH", "users_url", <<"users", "/", "$payload.id", "/", "role">>, "none", "bearer", "dict_method", TRUE, FALSE, "record", "User", "", "update"),
    Op("Users", "user", "GET", "users_url", <<"users", "/", "$id">>, "none", "bearer", "none", FALSE, FALSE, "record", "User", "", "read"),
    Op("Users", "user_profile", "GET", "users_url", <<"users", "/", "profile">>, "none", "bearer", "none", FALSE, FALSE, "record", "User", "", "read"),
    Op("Users", "users", "GET", "users_url", <<"users", "?", "$query">>, "items", "bearer", "none", FALSE, FALSE, "record", "UsersPage", "", "list"),
    Op("Users", "disable", "POST", "users_url", <<"users", "/", "$id", "/", "disable">>, "none", "bearer", "none", FALSE, FALSE, "record", "User", "", "disable"),
    Op("Users", "enable", "POST", "users_url", <<"users", "/", "$id", "/", "enable">>, "none", "bearer", "none", FALSE, FALSE, "record", "User", "", "enable"),
    Op("Users", "list_user_groups", "GET", "users_url", <<"$domain_id", "/", "users", "/", "$id", "/", "groups", "?", "$query">>, "items", "bearer", "none", FALSE, FALSE, "record", "GroupsPage", "", "list"),
    Op("Users", "list_user_clients", "GET", "clients_url", <<"$domain_id", "/", "users", "/", "$id", "/", "clients", "?", "$query">>, "items", "bearer", "none", FALSE, FALSE, "record", "ClientsPage", "", "list"),
    Op("Users", "list_user_channels", "GET", "clients_url", <<"$domain_id", "/", "users", "/", "$id", "/", "channels", "?", "$query">>, "items", "bearer", "none", FALSE, FALSE, "record", "ChannelsPage", "", "list"),
    Op("Users", "reset_password_request", "POST", "users_url", <<"password", "/", "reset-request">>, "none", "none", "literal", FALSE, FALSE, "ack", "", "Email with reset link sent successfully", "other"),
    Op("Users", "reset_password", "PUT", "users_url", <<"password", "/", "reset">>, "none", "bearer", "literal", FALSE, FALSE, "ack", "", "Password reset successfully", "other"),
    Op("Users", "delete_user", "DELETE", "users_url", <<"users", "/", "$id">>, "none", "bearer", "none", FALSE, FALSE, "ack", "", "User deleted successfully", "remove"),
    Op("Users", "search_users", "GET", "users_url", <<"users", "/", "search", "?", "$query">>, "items", "bearer", "none", FALSE, FALSE, "record", "UsersPage", "", "list") }

AllOps ==
    RolesOps \cup AlarmsOps \cup BootstrapOps \cup CertsOps \cup ChannelsOps
    \cup ChannelsRoleOps \cup ClientsOps \cup ClientsRoleOps \cup DomainsOps
    \cup DomainsRoleOps \cup GroupsOps \cup GroupsRoleOps \cup HealthOps
    \cup JournalsOps \cup MessagesOps \cup PATsOps \cup ReportsOps
    \cup RulesOps \cup UsersOps

----------------------------------------------------------------------------
(* Construction: every client strips the trailing slashes of its base URL. *)

DEFAULT_URL == <<"http:", "/", "/", "localhost">>

\* a URL argument that is None
NoUrl == <<"$None">>

AlarmsInit(alarms_url) == [alarms_url |-> RStrip(alarms_url)]

BootstrapInit(bootstrap_url) == [bootstrap_url |-> RStrip(bootstrap_url)]

CertsInit(certs_url) == [certs_url |-> RStrip(certs_url)]

ChannelsInit(channels_url) == [channels_url |-> RStrip(channels_url)]

ClientsInit(clients_url) == [clients_url |-> RStrip(clients_url)]

DomainsInit(domains_url) == [domains_url |-> RStrip(domains_url)]

GroupsInit(groups_url) == [groups_url |-> RStrip(groups_url)]

JournalsInit(journal_url) == [journals_url |-> RStrip(journal_url)]

\* variant: the client takes the adapter's URL from the module-level default
MessagesInitGlobal(readers_url, http_adapter_url) ==
    [readers_url |-> RStrip(readers_url), http_adapter_url |-> DEFAULT_URL]

MessagesInit(readers_url, http_adapter_url) ==
    [readers_url |-> RStrip(readers_url), http_adapter_url |-> RStrip(http_adapter_url)]

PATsInit(auth_url) == [auth_url |-> RStrip(auth_url)]

ReportsInit(reports_url) == [reports_url |-> RStrip(reports_url)]

RulesInit(rules_url) == [rules_url |-> RStrip(rules_url)]

UsersInit(users_url, clients_url) ==
    [users_url |-> RStrip(users_url),
     clients_url |-> IF clients_url # NoUrl /\ clients_url # <<>>
                     THEN RStrip(clients_url) ELSE <<>>]

\* url.rstrip('/') if url else None
HealthUrl(url) == IF url # NoUrl /\ url # <<>> THEN RStrip(url) ELSE NoUrl

\* Health.__init__: k holds the keyword arguments, NoUrl for one not passed
HealthInit(k) ==
    [users_url |-> HealthUrl(k.users_url), clients_url |-> HealthUrl(k.clients_url),
     channels_url |-> HealthUrl(k.channels_url), bootstrap_url |-> HealthUrl(k.bootstrap_url),
     certs_url |-> HealthUrl(k.certs_url), readers_url |-> HealthUrl(k.readers_url),
     http_adapter_url |-> HealthUrl(k.http_adapter_url),
     journal_url |-> HealthUrl(k.journal_url),
     invitations_url |-> HealthUrl(k.invitations_url),
     domains_url |-> HealthUrl(k.domains_url), groups_url |-> HealthUrl(k.groups_url),
     auth_url |-> HealthUrl(k.auth_url)]

\* SDK.__init__: u maps each keyword argument to the URL passed for it
SDK(u) ==
    [Users     |-> UsersInit(u.users_url, u.clients_url),
     Domains   |-> DomainsInit(u.domains_url),
     Clients   |-> ClientsInit(u.clients_url),
     Certs     |-> CertsInit(u.certs_url),
     Groups    |-> GroupsInit(u.groups_url),
     Channels  |-> ChannelsInit(u.channels_url),
     Messages  |-> MessagesInit(u.readers_url, u.http_adapter_url),
     Bootstrap |-> BootstrapInit(u.bootstrap_url),
     Journals  |-> JournalsInit(u.journal_url),
     Health    |-> HealthInit(
                      [users_url |-> u.users_url, clients_url |-> u.clients_url,
                       channels_url |-> u.channels_url,
                       bootstrap_url |-> u.bootstrap_url, certs_url |-> u.certs_url,
                       readers_url |-> u.readers_url,
                       http_adapter_url |-> u.http_adapter_url,
                       journal_url |-> u.journal_url, invitations_url |-> NoUrl,
                       domains_url |-> u.domains_url, groups_url |-> u.groups_url,
                       auth_url |-> u.auth_url]),
     Rules     |-> RulesInit(u.rules_url),
     Reports   |-> ReportsInit(u.reports_url),
     PATs      |-> PATsInit(u.auth_url),
     Alarms    |-> AlarmsInit(u.alarms_url)]

\* variant: a name that is not in the dict is probed at the users service
ServiceUrlFallback(h, service) ==
    CASE service = "clients"      -> h.clients_url
      [] service = "users"        -> h.users_url
      [] service = "channels"     -> h.channels_url
      [] service = "bootstrap"    -> h.bootstrap_url
      [] service = "certs"        -> h.certs_url
      [] service = "reader"       -> h.readers_url
      [] service = "http-adapter" -> h.http_adapter_url
      [] service = "journal"      -> h.journal_url
      [] service = "invitations"  -> h.invitations_url
      [] service = "domains"      -> h.domains_url
      [] service = "groups"       -> h.groups_url
      [] service = "pats"         -> h.auth_url
      [] OTHER                    -> h.users_url

\* Health.health: the service_urls dict; an unknown name gives None
ServiceUrl(h, service) ==
    CASE service = "clients"      -> h.clients_url
      [] service = "users"        -> h.users_url
      [] service = "channels"     -> h.channels_url
      [] service = "bootstrap"    -> h.bootstrap_url
      [] service = "certs"        -> h.certs_url
      [] service = "reader"       -> h.readers_url
      [] service = "http-adapter" -> h.http_adapter_url
      [] service = "journal"      -> h.journal_url
      [] service = "invitations"  -> h.invitations_url
      [] service = "domains"      -> h.domains_url
      [] service = "groups"       -> h.groups_url
      [] service = "pats"         -> h.auth_url
      [] OTHER                    -> NoUrl

ServiceNames ==
    {"clients", "users", "channels", "bootstrap", "certs", "reader",
     "http-adapter", "journal", "invitations", "domains", "groups", "pats"}

UrlArguments ==
    {"users_url", "channels_url", "domains_url", "clients_url", "groups_url",
     "certs_url", "readers_url", "http_adapter_url", "bootstrap_url",
     "journal_url", "rules_url", "reports_url", "auth_url", "alarms_url"}

\* the parameters of SDK.__init__: a keyword argument that is not passed
\* (NoUrl) takes the default
Defaults(k) == [a \in UrlArguments |-> IF k[a] = NoUrl THEN DEFAULT_URL ELSE k[a]]

\* the keyword arguments that are passed in the mixed construction
SomePassed == {"clients_url", "readers_url", "auth_url", "journal_url"}

\* the ways the SDK is constructed here: with no argument, with one host per
\* service, with a path prefix and a trailing slash on each URL, and with
\* some URLs passed and the others left to the default
Deployments ==
    { [a \in UrlArguments |-> NoUrl],
      [a \in UrlArguments |-> <<"http:", "/", "/", a>>],
      [a \in UrlArguments |-> <<"http:", "/", "/", a, "/", "api", "/">>],
      [a \in UrlArguments |-> IF a \in SomePassed
                              THEN <<"http:", "/", "/", a, "/">> ELSE NoUrl] }

----------------------------------------------------------------------------
(* Arguments of a call.  A payload or query-parameters object is either a  *)
(* record (an instance of the dataclass of defs.py) or a mapping (a dict). *)

Payload(kind) ==
    [kind |-> kind, id |-> <<"p1">>, client_id |-> <<"bc1">>,
     domain_id |-> <<"dom2">>, name |-> <<"dev1">>]

Params(kind, offset, limit, name) ==
    [kind |-> kind, offset |-> offset, limit |-> limit, name |-> name]

NoParams == Params("none", PyNone, PyNone, PyNone)

Token == PyText(<<"tok1">>)

DomainIds == {<<"dom1">>}

Ids == {<<"id1">>, <<"/", "/", "evil">>}

RoleIds == {<<"role1">>}

\* the longest topic has this many dot-separated parts
MaxTopicParts == 3

RECURSIVE TopicOf(_)
TopicOf(n) ==
    IF n = 1 THEN <<"ch1">> ELSE TopicOf(n - 1) \o <<".", "s" \o ToString(n - 1)>>

Topics == {TopicOf(n) : n \in 1..MaxTopicParts}

ParamValues ==
    { Params(k, o, l, n) :
        k \in {"record", "mapping"},
        o \in {PyNone, PyInt(0)},
        l \in {PyNone, PyInt(10)},
        n \in {PyNone, PyText(<<"a", "&", "b", " ", "c">>)} }

PositionalValues ==
    { Params("positional", o, l, PyNone) :
        o \in {PyNone, PyInt(0)}, l \in {PyNone, PyInt(10)} }

CryptoKeys == { <<107>>, [i \in 1..(KeyLen + 1) |-> 96 + ((i - 1) % 26) + 1] }

IVs == { [i \in 1..BlockLen |-> i], [i \in 1..BlockLen |-> 255 - (7 * i)] }

ExternalKey == <<101, 107>>

DefaultArgs ==
    [token |-> Token, domain_id |-> <<"dom1">>, id |-> <<"id1">>,
     id2 |-> <<"role1">>, payload |-> Payload("none"), params |-> NoParams,
     list_roles |-> PyNone, topic |-> <<>>, secret |-> <<"secret1">>,
     crypto_key |-> <<>>, iv |-> <<>>, service |-> "",
     url |-> <<>>, endpoint |-> <<>>]

HasSlot(op, slot) == \E i \in 1..Len(op.path) : op.path[i] = slot

PayloadSlots == {"$payload.id", "$payload.client_id", "$payload.domain_id"}

\* the method takes an entity object (to serialize, or to read an ID from)
HasPayload(op) ==
    op.attr \/ op.ser \in {"dict_method", "dunder_dict", "asdict", "lit_dict_method"}

\* the arguments a method is called with
ArgsOf(op) ==
    { [DefaultArgs EXCEPT
          !.token = tk, !.domain_id = d, !.id = i, !.id2 = r,
          !.payload = Payload(pk), !.params = q, !.list_roles = lr,
          !.topic = tp, !.service = sv, !.crypto_key = ck, !.iv = iv,
          !.url = IF op.cl = "Roles" THEN DEFAULT_URL ELSE <<>>,
          !.endpoint = IF op.cl = "Roles" THEN <<"dom1", "/", "clients">> ELSE <<>>] :
        tk \in (IF op.auth = "bearer_opt" THEN {PyNone, Token} ELSE {Token}),
        d \in DomainIds,
        i \in (IF HasSlot(op, "$id") THEN Ids ELSE {<<"id1">>}),
        r \in RoleIds,
        pk \in (IF HasPayload(op) THEN {"record", "mapping"} ELSE {"none"}),
        q \in (IF op.query \in {"items", "attrs"} THEN ParamValues
               ELSE IF op.query = "limit_offset" THEN PositionalValues
               ELSE {NoParams}),
        lr \in (IF op.query = "roles" THEN {PyNone, PyBool(TRUE), PyBool(FALSE)}
                ELSE {PyNone}),
        tp \in (IF op.cl = "Messages" THEN Topics ELSE {<<>>}),
        sv \in (IF op.cl = "Health" THEN ServiceNames \cup {"unknown"} ELSE {""}),
        ck \in (IF op.auth = "client_enc" THEN CryptoKeys ELSE {<<>>}),
        iv \in (IF op.auth = "client_enc" THEN IVs ELSE {<<>>}) }

----------------------------------------------------------------------------
(* Building the request.                                                   *)

\* str.split(sep, n): at most n splits
RECURSIVE SplitMax(_, _, _)
SplitMax(s, sep, n) ==
    IF n = 0 \/ \A i \in 1..Len(s) : s[i] # sep
    THEN <<s>>
    ELSE LET k == CHOOSE i \in 1..Len(s) :
                      s[i] = sep /\ \A j \in 1..(i - 1) : s[j] # sep
         IN  <<SubSeq(s, 1, k - 1)>> \o SplitMax(SubSeq(s, k + 1, Len(s)), sep, n - 1)

\* {key: str(value) for key, value in ... if value is not None}
StringParams(q) ==
    LET all == << <<"offset", q.offset>>, <<"limit", q.limit>>, <<"name", q.name>> >>
        given == SelectSeq(all, LAMBDA kv : kv[2] # PyNone)
    IN  [i \in 1..Len(given) |-> <<given[i][1], PyStr(given[i][2])>>]

\* Messages.read: the subtopic is taken only when the split gives two parts
SubtopicPart(channel_id) ==
    LET parts == SplitMax(channel_id, ".", 2)
    IN  IF Len(parts) = 2 THEN ReplaceDots(parts[2]) ELSE <<>>

\* variant: send splits the topic at its first dot only
PathTokenFirstDot(t, a) ==
    CASE t = "$domain_id"         -> a.domain_id
      [] t = "$id"                -> a.id
      [] t = "$id2"               -> a.id2
      [] t = "$endpoint"          -> a.endpoint
      [] t = "$payload.id"        -> a.payload.id
      [] t = "$payload.client_id" -> a.payload.client_id
      [] t = "$payload.domain_id" -> a.payload.domain_id
      [] t = "$query"             -> UrlEncode(StringParams(a.params))
      [] t = "$limit"             -> PyStr(a.params.limit)
      [] t = "$offset"            -> PyStr(a.params.offset)
      [] t = "$chan_id"           -> SplitMax(a.topic, ".", 1)[1]
      [] t = "$subtopic"          -> JoinWith(Tail(SplitMax(a.topic, ".", 1)), "/")
      [] t = "$read_chan"         -> SplitMax(a.topic, ".", 2)[1]
      [] t = "$subtopic_part"     -> SubtopicPart(a.topic)
      [] OTHER                    -> <<t>>

\* the value an f-string placeholder of the path formats to
PathToken(t, a) ==
    CASE t = "$domain_id"         -> a.domain_id
      [] t = "$id"                -> a.id
      [] t = "$id2"               -> a.id2
      [] t = "$endpoint"          -> a.endpoint
      [] t = "$payload.id"        -> a.payload.id
      [] t = "$payload.client_id" -> a.payload.client_id
      [] t = "$payload.domain_id" -> a.payload.domain_id
      [] t = "$query"             -> UrlEncode(StringParams(a.params))
      [] t = "$limit"             -> PyStr(a.params.limit)
      [] t = "$offset"            -> PyStr(a.params.offset)
      [] t = "$chan_id"           -> SplitOn(a.topic, ".")[1]
      [] t = "$subtopic"          -> JoinWith(Tail(SplitOn(a.topic, ".")), "/")
      [] t = "$read_chan"         -> SplitMax(a.topic, ".", 2)[1]
      [] t = "$subtopic_part"     -> SubtopicPart(a.topic)
      [] OTHER                    -> <<t>>

RelativeUrl(op, a) == Flatten([i \in 1..Len(op.path) |-> PathToken(op.path[i], a)])

BaseUrl(cfg, op, a) ==
    CASE op.cl = "Roles"  -> a.url
      [] op.cl = "Health" -> ServiceUrl(cfg.Health, a.service)
      [] OTHER            -> cfg[op.cl][op.base]

QueryParamRoles == "roles"

\* variant: the path is joined onto the base URL without the added slash
RequestUrlBare(cfg, op, a) ==
    UrlJoin(BaseUrl(cfg, op, a), RelativeUrl(op, a))
    \o (IF op.query = "roles" /\ a.list_roles # PyNone
        THEN <<"?", QueryParamRoles, "=">> \o PyStrLower(a.list_roles)
        ELSE <<>>)

\* urljoin(base + '/', path), then the roles flag where the method has one
RequestUrl(cfg, op, a) ==
    UrlJoin(BaseUrl(cfg, op, a) \o <<"/">>, RelativeUrl(op, a))
    \o (IF op.query = "roles" /\ a.list_roles # PyNone
        THEN <<"?", QueryParamRoles, "=">> \o PyStrLower(a.list_roles)
        ELSE <<>>)

\* a header that is not sent
Absent == <<>>

content_type == <<"application", "/", "json">>

\* variant: every method authenticates with the bearer token
AuthorizationBearer(op, a) == <<"Bearer", " ">> \o PyStr(a.token)

\* variant: the secure bootstrap sends the external key as it is
AuthorizationPlain(op, a) ==
    CASE op.auth = "bearer"     -> <<"Bearer", " ">> \o PyStr(a.token)
      [] op.auth = "bearer_opt" -> IF a.token # PyNone
                                   THEN <<"Bearer", " ">> \o PyStr(a.token) ELSE Absent
      [] op.auth = "client"     -> <<"Client", " ">> \o a.secret
      [] op.auth = "client_enc" -> <<"Client", " ">> \o ToHex(Utf8Encode(ExternalKey))
      [] OTHER                  -> Absent

\* variant: the Authorization header is set whether or not a token is given
AuthorizationAlways(op, a) ==
    CASE op.auth \in {"bearer", "bearer_opt"} -> <<"Bearer", " ">> \o PyStr(a.token)
      [] op.auth = "client"     -> <<"Client", " ">> \o a.secret
      [] op.auth = "client_enc" ->
             <<"Client", " ">> \o BootstrapEncrypt(ExternalKey, a.crypto_key, a.iv)
      [] OTHER                  -> Absent

Authorization(op, a) ==
    CASE op.auth = "bearer"     -> <<"Bearer", " ">> \o PyStr(a.token)
      [] op.auth = "bearer_opt" -> IF a.token # PyNone
                                   THEN <<"Bearer", " ">> \o PyStr(a.token) ELSE Absent
      [] op.auth = "client"     -> <<"Client", " ">> \o a.secret
      [] op.auth = "client_enc" ->
             <<"Client", " ">> \o BootstrapEncrypt(ExternalKey, a.crypto_key, a.iv)
      [] OTHER                  -> Absent

Body(fmt, id, name) == [fmt |-> fmt, id |-> id, name |-> name]

\* the data argument: json.dumps of the payload or of a dict literal, the raw
\* message, or nothing
RequestBody(op, a) ==
    CASE op.ser \in {"dict_method", "dunder_dict", "asdict", "lit_dict_method"}
             -> Body("json", a.payload.id, a.payload.name)
      [] op.ser = "literal" -> Body("json", <<>>, <<>>)
      [] op.ser = "raw"     -> Body("raw", <<>>, <<>>)
      [] OTHER              -> Body("none", <<>>, <<>>)

\* variant: every list method serializes a record and a mapping alike
PreErrorEitherKind(cfg, op, a) ==
    IF op.cl = "Health" /\ BaseUrl(cfg, op, a) = NoUrl THEN "ValueError"
    ELSE IF op.attr /\ a.payload.kind = "mapping" THEN "AttributeError"
    ELSE IF op.ser \in {"dict_method", "lit_dict_method"} /\ a.payload.kind = "record"
    THEN "TypeError"
    ELSE IF op.ser = "asdict" /\ a.payload.kind = "mapping" THEN "TypeError"
    ELSE ""

\* the exception raised before any request is sent ("" if none): a mapping
\* has no __dict__ and no attributes, a record has no items(); json.dumps
\* rejects a record that has no dict() method; asdict rejects a mapping;
\* Health raises for a service without URL
PreError(cfg, op, a) ==
    IF op.cl = "Health" /\ BaseUrl(cfg, op, a) = NoUrl THEN "ValueError"
    ELSE IF op.query = "items" /\ a.params.kind = "record" THEN "AttributeError"
    ELSE IF op.query = "attrs" /\ a.params.kind = "mapping" THEN "AttributeError"
    ELSE IF op.attr /\ a.payload.kind = "mapping" THEN "AttributeError"
    ELSE IF op.ser \in {"dict_method", "lit_dict_method"} /\ a.payload.kind = "record"
    THEN "TypeError"
    ELSE IF op.ser = "asdict" /\ a.payload.kind = "mapping" THEN "TypeError"
    ELSE ""

Timeout == 30

\* variant: the health probe is sent without a timeout
TimeoutOfProbe(op) == IF op.cl = "Health" THEN 0 ELSE Timeout

\* the timeout argument of the method's requests call: timeout=30 in each
TimeoutOf(op) == Timeout

\* every method sets Content-Type except Health.health and Users.delete_user
SendsContentType(op) ==
    ~(op.auth = "noheaders" \/ (op.cl = "Users" /\ op.name = "delete_user"))

\* variant: every request is a POST
RequestPost(cfg, op, a) ==
    [verb |-> "POST", url |-> RequestUrl(cfg, op, a),
     ctype |-> IF SendsContentType(op) THEN content_type ELSE Absent,
     auth |-> Authorization(op, a), body |-> RequestBody(op, a),
     timeout |-> TimeoutOf(op)]

Request(cfg, op, a) ==
    [verb |-> op.verb, url |-> RequestUrl(cfg, op, a),
     ctype |-> IF SendsContentType(op) THEN content_type ELSE Absent,
     auth |-> Authorization(op, a), body |-> RequestBody(op, a),
     timeout |-> TimeoutOf(op)]

\* variant: the request is sent again
SendTwice(w, req) == Append(Append(w, req), req)

\* requests.<verb>(url, ...): one request goes out
Send(w, req) == Append(w, req)

----------------------------------------------------------------------------
(* Handling the response.                                                  *)

Statuses == {200, 201, 204, 300, 400, 404, 500}

TransportErrors == {"ConnectionError", "Timeout"}

\* response.ok: the status is not a 4xx or 5xx
Ok(status) == ~(400 <= status /\ status < 600)

\* fail names the exception requests raised instead of returning a response
Reply(status, json, message, error, id, text) ==
    [status |-> status, json |-> json, message |-> message, error |-> error,
     id |-> id, text |-> text, fail |-> ""]

NoReply == Reply(0, FALSE, PyNone, PyNone, <<>>, <<>>)

ConfigText == <<123, 34, 97, 34, 58, 34, 98, 34, 125>>

\* the bodies a secure bootstrap may be answered with: the configuration
\* encrypted under the caller's key, and text that is not hex
SecureTexts(a) == { BootstrapEncrypt(ConfigText, a.crypto_key, [i \in 1..BlockLen |-> 3 * i]),
                    <<"z", "z">> }

\* the responses a server may give: a JSON object with or without message
\* and error members, or a body that is not JSON
RepliesWith(texts) ==
    { Reply(st, TRUE, m, e, <<"srv1">>, t) :
        t \in texts,
        st \in Statuses,
        m \in {PyNone, PyText(<<"not", " ", "found">>)},
        e \in {PyNone, PyText(<<"detail1">>)} }
    \cup
    { Reply(st, FALSE, PyNone, PyNone, <<>>, t) : t \in texts, st \in Statuses }

Replies(op, a) == RepliesWith(IF op.ret = "decrypt" THEN SecureTexts(a) ELSE {<<>>})

Outcome(kind, status, error, detail, shape, rec, id, ack, exc, value) ==
    [kind |-> kind, status |-> status, error |-> error, detail |-> detail,
     shape |-> shape, rec |-> rec, id |-> id, ack |-> ack, exc |-> exc,
     value |-> value]

NoOutcome == Outcome("none", 0, PyNone, PyNone, "", "", <<>>, "", "", NoJson)

\* an exception other than Error leaves the method
Raise(exc) == Outcome("exception", 0, PyNone, PyNone, "", "", <<>>, "", exc, NoJson)

\* Errors.handle_error
handle_error(error, status_code, error_detail) ==
    Outcome("Error", status_code, error, error_detail, "", "", <<>>, "", "", NoJson)

\* variant: the handler turns what it caught into an Error
ReraiseAsError(o) ==
    Outcome("Error", 0, PyText(<<o.exc>>), PyNone, "", "", <<>>, "", "", NoJson)

\* except requests.RequestException as error: raise error
Reraise(o) == o

\* variant: the wrapper raises a new generic exception
WrapperConvert(o) ==
    Outcome("exception", 0, PyNone, PyNone, "", "", <<>>, "", "Exception", NoJson)

\* the wrapper's except Exception as error: raise error
WrapperReraise(o) == o

\* variant: every method deserializes the body, none acknowledges
SuccessDeserialized(op, a, r) ==
    IF ~r.json THEN Raise("JSONDecodeError")
    ELSE Outcome("result", 0, PyNone, PyNone, "record", op.rec, r.id, "", "", NoJson)

\* what the success branch returns
Success(op, a, r) ==
    CASE op.ret = "ack"  ->
             Outcome("result", r.status, PyNone, PyNone, "ack", "Response", <<>>,
                     op.ack, "", NoJson)
      [] op.ret = "none" ->
             Outcome("result", 0, PyNone, PyNone, "none", "", <<>>, "", "", NoJson)
      [] op.ret = "decrypt" ->
             LET d == BootstrapDecrypt(r.text, a.crypto_key)
             IN  IF d.exc # "" THEN Raise(d.exc)
                 ELSE Outcome("result", 0, PyNone, PyNone, "decrypt", "", <<>>, "",
                              "", d.value)
      [] OTHER ->
             IF ~r.json THEN Reraise(Raise("JSONDecodeError"))
             ELSE Outcome("result", 0, PyNone, PyNone, op.ret, op.rec, r.id, "",
                          "", NoJson)

\* variant: a failure response is handled like a success
HandleResponseAsSuccess(op, a, r) == Success(op, a, r)

\* the body of the try block once the response is there
HandleResponse(op, a, r) ==
    IF ~Ok(r.status)
    THEN IF ~r.json THEN Reraise(Raise("JSONDecodeError"))
         ELSE handle_error(r.message, r.status, IF op.detail THEN r.error ELSE PyNone)
    ELSE Success(op, a, r)

\* variant: the method ends without returning or raising anything
DeliverNothing(op, o) == NoOutcome

\* what the caller gets: a wrapper re-raises what its Roles method raised
Deliver(op, o) == IF op.via # "" /\ o.kind # "result" THEN WrapperReraise(o) ELSE o

----------------------------------------------------------------------------
\* STATE MACHINE
(* One caller drives the SDK: it invokes a method, the method sends its    *)
(* request (or raises before sending), the server answers or the transport *)
(* fails, and the caller takes the result or the exception.                *)
(*   config   the clients as SDK.__init__ constructed them                 *)
(*   pc       "idle", "sent" (request on the wire), "done"                 *)
(*   call     the method invoked and its arguments                         *)
(*   wire     the requests sent during the invocation, in order            *)
(*   resp     the response received                                        *)
(*   outcome  what the invocation returned or raised                       *)

\* variant: the method keeps the caller's token in an attribute of the client
SelfKeepsToken(cfg, op, a) ==
    [cfg EXCEPT !.Users = [@ EXCEPT !.clients_url = PyStr(a.token)]]

\* the attributes of the clients after a method ran: no method assigns to
\* self, so they are the ones it was entered with
Self(cfg, op, a) == cfg

NoOp == Op("", "", "", "", <<>>, "none", "none", "none", FALSE, FALSE, "none", "", "", "")

NoCall == [op |-> NoOp, args |-> DefaultArgs]

\* the callers that share one SDK object
Callers == {"caller1", "caller2"}

\* the invocation of one caller: its position, the method and arguments, the
\* request it built, what it sent, the response it got and what it returned
NoThread ==
    [pc |-> "idle", call |-> NoCall, request |-> <<>>, wire |-> <<>>,
     resp |-> NoReply, outcome |-> NoOutcome]

NoThreads == [t \in Callers |-> NoThread]

Init ==
    /\ kwargs \in Deployments
    /\ config = SDK(Defaults(kwargs))
    /\ threads = NoThreads
    /\ pc = "idle"
    /\ call = NoCall
    /\ wire = <<>>
    /\ resp = NoReply
    /\ outcome = NoOutcome
    /\ cpc = "unused"
    /\ ctext = <<>>
    /\ ckey = <<>>
    /\ civ = <<>>
    /\ cenc = <<>>
    /\ cdkey = <<>>
    /\ cdtext = <<>>
    /\ cdec = [exc |-> "", value |-> NoJson]

\* a method is called: it raises before sending, or sends its one request
Invoke ==
    /\ pc = "idle"
    /\ \E op \in AllOps : \E a \in ArgsOf(op) :
          /\ call' = [op |-> op, args |-> a]
          /\ IF PreError(config, op, a) # ""
             THEN /\ outcome' = Deliver(op, Raise(PreError(config, op, a)))
                  /\ wire' = wire
                  /\ pc' = "done"
             ELSE /\ outcome' = outcome
                  /\ wire' = Send(wire, Request(config, op, a))
                  /\ pc' = "sent"
          /\ config' = Self(config, op, a)
    /\ UNCHANGED <<kwargs, resp, threads>>
    /\ UNCHANGED cryptoVars

\* the response arrives and the method returns or raises
Respond ==
    /\ pc = "sent"
    /\ \E r \in Replies(call.op, call.args) :
          /\ resp' = r
          /\ outcome' = Deliver(call.op, HandleResponse(call.op, call.args, r))
    /\ pc' = "done"
    /\ UNCHANGED <<config, kwargs, call, wire, threads>>
    /\ UNCHANGED cryptoVars

\* requests raises instead of returning a response
TransportFail ==
    /\ pc = "sent"
    /\ \E e \in TransportErrors :
          /\ resp' = [NoReply EXCEPT !.fail = e]
          /\ outcome' = Deliver(call.op, Reraise(Raise(e)))
    /\ pc' = "done"
    /\ UNCHANGED <<config, kwargs, call, wire, threads>>
    /\ UNCHANGED cryptoVars

\* the caller has the outcome; the next invocation starts afresh
Return ==
    /\ pc = "done"
    /\ pc' = "idle"
    /\ call' = NoCall
    /\ wire' = <<>>
    /\ resp' = NoReply
    /\ outcome' = NoOutcome
    /\ UNCHANGED <<config, kwargs, threads>>
    /\ UNCHANGED cryptoVars

Next == Invoke \/ Respond \/ TransportFail \/ Return

Spec == Init /\ [][Next]_vars

\* requests is given a timeout: a request that stays unanswered fails, so
\* a call that has sent its request does not wait forever
SpecLive == Init /\ [][Next]_vars /\ WF_vars(TransportFail)

----------------------------------------------------------------------------
(* The encrypt / decrypt pair on its own: a text and a key are chosen,     *)
(* bootstrap_encrypt draws an IV and encrypts, bootstrap_decrypt decrypts  *)
(* what it produced.                                                       *)

\* the longest enumerated plaintext
MaxTextLen == 3

TextAlphabet == {123, 125, 34, 49, 97}

RECURSIVE TextsOfLen(_)
TextsOfLen(n) ==
    IF n = 0 THEN {<<>>}
    ELSE {Append(t, c) : t \in TextsOfLen(n - 1), c \in TextAlphabet}

\* texts longer than one cipher block, with multi-byte characters
LongTexts ==
    { <<123, 34, 97, 34, 58, 34, 97, 97, 97, 97, 97, 97, 97, 97, 97, 97, 97, 97,
        233, 8364, 34, 125>>,
      <<34, 97, 97, 97, 97, 97, 97, 97, 97, 97, 97, 97, 97, 97, 97, 97, 97, 233>> }

Plaintexts == UNION {TextsOfLen(n) : n \in 0..MaxTextLen} \cup LongTexts

InitCrypto ==
    /\ kwargs = [a \in UrlArguments |-> NoUrl]
    /\ config = SDK(Defaults(kwargs))
    /\ threads = NoThreads
    /\ pc = "idle"
    /\ call = NoCall
    /\ wire = <<>>
    /\ resp = NoReply
    /\ outcome = NoOutcome
    /\ cpc = "start"
    /\ ctext \in Plaintexts
    /\ ckey \in CryptoKeys
    /\ civ = <<>>
    /\ cenc = <<>>
    /\ cdkey = <<>>
    /\ cdtext = <<>>
    /\ cdec = [exc |-> "", value |-> NoJson]

\* bootstrap_encrypt(text, crypto_key); os.urandom picks the IV
Encrypt ==
    /\ cpc = "start"
    /\ \E iv \in IVs :
          /\ civ' = iv
          /\ cenc' = BootstrapEncrypt(ctext, ckey, iv)
    /\ cpc' = "encrypted"
    /\ UNCHANGED <<ctext, ckey, cdkey, cdtext, cdec>>
    /\ UNCHANGED httpVars
    /\ UNCHANGED threads

\* bootstrap_decrypt(encrypted_data, crypto_key) on the encryptor's output
Decrypt ==
    /\ cpc = "encrypted"
    /\ cdkey' = ckey
    /\ LET d == BootstrapDecrypt(cenc, ckey)
       IN  /\ cdtext' = d.text
           /\ cdec' = [exc |-> d.exc, value |-> d.value]
    /\ cpc' = "decrypted"
    /\ UNCHANGED <<ctext, ckey, civ, cenc>>
    /\ UNCHANGED httpVars
    /\ UNCHANGED threads

NextCrypto == Encrypt \/ Decrypt

SpecCrypto == InitCrypto /\ [][NextCrypto]_vars

----------------------------------------------------------------------------
(* Encryption under one secret and decryption under another: the sender    *)
(* and the receiver each hold a crypto key, and the receiver decrypts what *)
(* the sender encrypted.                                                   *)

\* a secret of n characters: letters in turn
LetterKey(n) == [i \in 1..n |-> 96 + ((i - 1) % 26) + 1]

\* the secrets tried: short ones that differ by trailing NUL characters or
\* in a letter, long ones that differ before or after the 32nd byte, and two
\* whose 32nd byte is the first byte of different two-byte characters
KeyPool ==
    { <<107>>, <<107, 0>>, <<107, 0, 0>>, <<108>>,
      LetterKey(KeyLen), LetterKey(KeyLen + 1), LetterKey(KeyLen) \o <<90, 90>>,
      LetterKey(KeyLen - 1) \o <<90>>,
      LetterKey(KeyLen - 1) \o <<233>>, LetterKey(KeyLen - 1) \o <<227>> }

\* the texts encrypted are JSON texts and texts that are not JSON, one of
\* them longer than a cipher block
InitKeys ==
    /\ kwargs = [a \in UrlArguments |-> NoUrl]
    /\ config = SDK(Defaults(kwargs))
    /\ threads = NoThreads
    /\ pc = "idle"
    /\ call = NoCall
    /\ wire = <<>>
    /\ resp = NoReply
    /\ outcome = NoOutcome
    /\ cpc = "start"
    /\ ctext \in {<<>>, <<49>>, <<34, 97, 34>>, <<123, 125>>, <<97>>} \cup LongTexts
    /\ ckey \in KeyPool
    /\ civ = <<>>
    /\ cenc = <<>>
    /\ cdkey = <<>>
    /\ cdtext = <<>>
    /\ cdec = [exc |-> "", value |-> NoJson]

\* bootstrap_decrypt(encrypted_data, crypto_key) with the receiver's secret
DecryptUnder ==
    /\ cpc = "encrypted"
    /\ \E k \in KeyPool :
          /\ cdkey' = k
          /\ LET d == BootstrapDecrypt(cenc, k)
             IN  /\ cdtext' = d.text
                 /\ cdec' = [exc |-> d.exc, value |-> d.value]
    /\ cpc' = "decrypted"
    /\ UNCHANGED <<ctext, ckey, civ, cenc>>
    /\ UNCHANGED httpVars
    /\ UNCHANGED threads

NextKeys == Encrypt \/ DecryptUnder

SpecKeys == InitKeys /\ [][NextKeys]_vars

----------------------------------------------------------------------------
(* Several callers on one SDK object.  Each invocation runs in its own     *)
(* frame: it builds its headers, URL and body in local variables, sends    *)
(* them, and handles the response it got; the callers' steps interleave    *)
(* freely.  The clients (config) are the only thing the callers share.     *)

\* every caller authenticates with its own token and its own client secret
TokenOf(t) == PyText(<<"tok", t>>)

SecretOf(t) == <<"secret", t>>

\* the methods the callers invoke
SharedOps ==
    {op \in AllOps :
        \/ IsMethod(op, "Clients", "create_client")
        \/ IsMethod(op, "Channels", "connect_client")
        \/ IsMethod(op, "Roles", "list_available_actions")
        \/ IsMethod(op, "Clients", "view_client_role")
        \/ IsMethod(op, "Messages", "send")}

\* the arguments caller t passes
SharedArgs(t, op) ==
    {[a EXCEPT !.token = TokenOf(t), !.secret = SecretOf(t)] : a \in ArgsOf(op)}

\* the answers of the server to a caller
SharedReplies(op, a) == {r \in Replies(op, a) : r.status \in {200, 404}}

\* variant: the methods keep their working values in one place for all callers
LocalsShared(th, t) == th[CHOOSE u \in Callers : th[u].pc # "idle"]

\* the local variables of caller t's invocation: each invocation has its own
Locals(th, t) == th[t]

InitShared ==
    /\ kwargs \in Deployments
    /\ config = SDK(Defaults(kwargs))
    /\ threads = NoThreads
    /\ pc = "idle"
    /\ call = NoCall
    /\ wire = <<>>
    /\ resp = NoReply
    /\ outcome = NoOutcome
    /\ cpc = "unused"
    /\ ctext = <<>>
    /\ ckey = <<>>
    /\ civ = <<>>
    /\ cenc = <<>>
    /\ cdkey = <<>>
    /\ cdtext = <<>>
    /\ cdec = [exc |-> "", value |-> NoJson]

\* caller t enters a method, which builds headers, url and body, or raises
Build(t) ==
    /\ threads[t].pc = "idle"
    /\ \E op \in SharedOps : \E a \in SharedArgs(t, op) :
          /\ threads' =
                [threads EXCEPT ![t] =
                    IF PreError(config, op, a) # ""
                    THEN [@ EXCEPT !.pc = "done", !.call = [op |-> op, args |-> a],
                                   !.outcome = Deliver(op, Raise(PreError(config, op, a)))]
                    ELSE [@ EXCEPT !.pc = "built", !.call = [op |-> op, args |-> a],
                                   !.request = Request(config, op, a)]]
          /\ config' = Self(config, op, a)
    /\ UNCHANGED <<kwargs, pc, call, wire, resp, outcome>>
    /\ UNCHANGED cryptoVars

\* caller t's method passes what it built to requests
Transmit(t) ==
    /\ threads[t].pc = "built"
    /\ threads' = [threads EXCEPT ![t] =
                      [@ EXCEPT !.pc = "sent",
                                !.wire = Send(@, Locals(threads, t).request)]]
    /\ UNCHANGED httpVars
    /\ UNCHANGED cryptoVars

\* caller t's response arrives and its method returns or raises
Receive(t) ==
    /\ threads[t].pc = "sent"
    /\ \E r \in SharedReplies(threads[t].call.op, threads[t].call.args) :
          threads' = [threads EXCEPT ![t] =
                         [@ EXCEPT !.pc = "done", !.resp = r,
                                   !.outcome =
                                       Deliver(Locals(threads, t).call.op,
                                               HandleResponse(Locals(threads, t).call.op,
                                                              Locals(threads, t).call.args,
                                                              r))]]
    /\ UNCHANGED httpVars
    /\ UNCHANGED cryptoVars

\* requests raises in caller t's invocation
Break(t) ==
    /\ threads[t].pc = "sent"
    /\ \E e \in TransportErrors :
          threads' = [threads EXCEPT ![t] =
                         [@ EXCEPT !.pc = "done", !.resp = [NoReply EXCEPT !.fail = e],
                                   !.outcome = Deliver(Locals(threads, t).call.op,
                                                       Reraise(Raise(e)))]]
    /\ UNCHANGED httpVars
    /\ UNCHANGED cryptoVars

\* caller t has its outcome and its frame is gone
Leave(t) ==
    /\ threads[t].pc = "done"
    /\ threads' = [threads EXCEPT ![t] = NoThread]
    /\ UNCHANGED httpVars
    /\ UNCHANGED cryptoVars

NextShared ==
    \E t \in Callers : Build(t) \/ Transmit(t) \/ Receive(t) \/ Break(t) \/ Leave(t)

SpecShared == InitShared /\ [][NextShared]_vars

----------------------------------------------------------------------------
(* Calls whose ID arguments are arbitrary strings.  The methods format the *)
(* IDs into the relative reference they hand to urljoin, without quoting,  *)
(* so an ID is read as part of a URL reference: a leading "//" as a host,  *)
(* a scheme as an absolute URL, a leading "/" as an absolute path and ".." *)
(* as a step up.                                                           *)

\* ID values as a caller may pass them
HostileIds ==
    { <<"/", "x">>, <<"/", "/", "evil">>, <<"..">>,
      <<"..", "/", "..", "/", "..">>,
      <<"http:", "/", "/", "evil">>, <<"https:", "/", "/", "evil">> }

\* arguments of the kinds the method reads, all IDs being plain identifiers
PlainArgs(op) ==
    CHOOSE a \in ArgsOf(op) :
        /\ a.token = Token
        /\ a.id = <<"id1">>
        /\ a.payload.kind = (IF ~HasPayload(op) THEN "none"
                             ELSE IF op.ser \in {"dict_method", "lit_dict_method"}
                             THEN "mapping" ELSE "record")
        /\ a.params = (CASE op.query = "items" -> Params("mapping", PyNone, PyNone, PyNone)
                         [] op.query = "attrs" -> Params("record", PyNone, PyNone, PyNone)
                         [] op.query = "limit_offset" ->
                                Params("positional", PyInt(0), PyInt(10), PyNone)
                         [] OTHER -> NoParams)
        /\ a.list_roles = PyNone
        /\ a.topic \in {<<>>, <<"ch1">>}
        /\ a.service \in {"", "users"}
        /\ a.crypto_key \in {<<>>, <<107>>}
        /\ a.iv \in {<<>>, [i \in 1..BlockLen |-> i]}

\* the calls of a method with one of the ID arguments of its path (domain,
\* entity or role ID) arbitrary
HostileArgsOf(op) ==
    { [PlainArgs(op) EXCEPT !.domain_id = value] :
        value \in {v \in HostileIds : HasSlot(op, "$domain_id")} }
    \cup { [PlainArgs(op) EXCEPT !.id = value] :
             value \in {v \in HostileIds : HasSlot(op, "$id")} }
    \cup { [PlainArgs(op) EXCEPT !.id2 = value] :
             value \in {v \in HostileIds : HasSlot(op, "$id2")} }

\* the SDK is constructed with one host per service, without or with a path
\* prefix
InitHostile ==
    /\ kwargs \in { [a \in UrlArguments |-> <<"http:", "/", "/", a>>],
                     [a \in UrlArguments |-> <<"http:", "/", "/", a, "/", "api">>] }
    /\ config = SDK(Defaults(kwargs))
    /\ threads = NoThreads
    /\ pc = "idle"
    /\ call = NoCall
    /\ wire = <<>>
    /\ resp = NoReply
    /\ outcome = NoOutcome
    /\ cpc = "unused"
    /\ ctext = <<>>
    /\ ckey = <<>>
    /\ civ = <<>>
    /\ cenc = <<>>
    /\ cdkey = <<>>
    /\ cdtext = <<>>
    /\ cdec = [exc |-> "", value |-> NoJson]

\* a method is called with such an ID: it raises before sending, or sends
\* its one request
InvokeHostile ==
    /\ pc = "idle"
    /\ \E op \in AllOps : \E a \in HostileArgsOf(op) :
          /\ call' = [op |-> op, args |-> a]
          /\ IF PreError(config, op, a) # ""
             THEN /\ outcome' = Deliver(op, Raise(PreError(config, op, a)))
                  /\ wire' = wire
                  /\ pc' = "done"
             ELSE /\ outcome' = outcome
                  /\ wire' = Send(wire, Request(config, op, a))
                  /\ pc' = "sent"
          /\ config' = Self(config, op, a)
    /\ UNCHANGED <<kwargs, resp, threads>>
    /\ UNCHANGED cryptoVars

NextHostile == InvokeHostile \/ Respond \/ TransportFail \/ Return

SpecHostile == InitHostile /\ [][NextHostile]_vars

----------------------------------------------------------------------------
(* Properties.                                                             *)

Is2xx(status) == 200 <= status /\ status < 300

Completed == pc = "done"

\* a response was received (the transport did not fail)
Answered == pc = "done" /\ resp # NoReply /\ resp.fail = ""

\* C1 as stated: decrypting what encrypt produced under the same key returns
\* the plaintext string itself (here for the plaintexts that are JSON texts).
C1_ReturnsPlaintext ==
    (cpc = "decrypted" /\ JsonLoads(ctext).t # "invalid") =>
        cdec = [exc |-> "", value |-> JsonValue("str", ctext, <<>>, "")]

\* C1 amended: for every plaintext, key and IV, decrypting what encrypt
\* produced under the same key recovers the plaintext as the decrypted text
\* and returns that text parsed as JSON; it raises JSONDecodeError when the
\* plaintext is not JSON.
C1_RoundTrip ==
    cpc = "decrypted" =>
        /\ cdtext = ctext
        /\ cdec = IF JsonLoads(ctext).t = "invalid"
                  THEN [exc |-> "JSONDecodeError", value |-> NoJson]
                  ELSE [exc |-> "", value |-> JsonLoads(ctext)]

C1_Witness ==
    /\ cpc = "decrypted"
    /\ Len(Utf8Encode(ctext)) > BlockLen
    /\ Len(Utf8Encode(ckey)) > KeyLen
    /\ cdec.exc = ""
    /\ cdec.value.t = "object"

\* C2: whenever the response status is not 2xx (the body being a JSON
\* object), the call raises Error with the response's status and the body's
\* message, and returns no result.
C2_Non2xxRaises ==
    (Answered /\ resp.json /\ ~Is2xx(resp.status)) =>
        /\ outcome.kind = "Error"
        /\ outcome.status = resp.status
        /\ outcome.error = resp.message

ListOps == {op \in AllOps : op.query \in {"items", "attrs", "limit_offset"}}

ParamFields == {"offset", "limit", "name"}

FieldOf(q, f) ==
    CASE f = "offset" -> q.offset
      [] f = "limit"  -> q.limit
      [] OTHER        -> q.name

\* the key=value components of the query string of a URL
QueryComponents(url) ==
    LET query == UrlParse(url).query
    IN  IF query = <<>> THEN <<>> ELSE SplitOn(query, "&")

\* the field occurs once, as key=quoted value, when it is set, and not at all
\* when it is None
FieldInQuery(url, q, f) ==
    LET comps == QueryComponents(url)
        named == {i \in DOMAIN comps : comps[i] # <<>> /\ comps[i][1] = f}
    IN  IF FieldOf(q, f) = PyNone THEN named = {}
        ELSE /\ Cardinality(named) = 1
             /\ \A i \in named :
                   comps[i] = <<f, "=">> \o QuotePlus(PyStr(FieldOf(q, f)))

\* C3: the request of every list method carries each non-null field of the
\* parameters exactly once, url-encoded, and no null field.
C3_QueryFields ==
    (pc \in {"sent", "done"} /\ call.op \in ListOps /\ wire # <<>>) =>
        \A f \in ParamFields : FieldInQuery(wire[1].url, call.args.params, f)

\* C4: creating a client named dev1 sends exactly one request, POST
\* {base}/{domain}/clients with the serialized client as body, and on a 2xx
\* JSON response returns a Client whose id is the server's.
C4_CreateClient ==
    (Completed /\ IsMethod(call.op, "Clients", "create_client")
        /\ call.args.payload.name = <<"dev1">>) =>
        /\ Len(wire) = 1
        /\ wire[1].verb = "POST"
        /\ wire[1].url = config.Clients.clients_url \o <<"/">> \o call.args.domain_id
                            \o <<"/", "clients">>
        /\ wire[1].body = Body("json", call.args.payload.id, call.args.payload.name)
        /\ (Answered /\ Is2xx(resp.status) /\ resp.json) =>
              /\ outcome.kind = "result"
              /\ outcome.rec = "Client"
              /\ outcome.id = resp.id

\* the Roles method a wrapper delegates to
Helper(op) == CHOOSE h \in RolesOps : h.name = op.via

\* C5: viewing a role through a wrapper of Clients, Channels, Groups or
\* Domains, when the server answers 404 with a JSON error body, raises Error
\* with status 404, and it is the very error the Roles helper raised.
C5_RoleNotFound ==
    (Answered /\ call.op.via = "view_role" /\ resp.status = 404 /\ resp.json) =>
        /\ outcome.kind = "Error"
        /\ outcome.status = 404
        /\ outcome.error = resp.message
        /\ outcome = HandleResponse(Helper(call.op), call.args, resp)

C5_Witness ==
    /\ Answered
    /\ IsMethod(call.op, "Domains", "view_domain_role")
    /\ resp.status = 404
    /\ resp.json
    /\ outcome.kind = "Error"
    /\ outcome.status = 404

\* the position of the first dot of a dotted topic
FirstDot(topic) ==
    CHOOSE i \in 1..Len(topic) : topic[i] = "." /\ \A j \in 1..(i - 1) : topic[j] # "."

Dotted(topic) == \E i \in 1..Len(topic) : topic[i] = "."

\* C6: Messages.send takes the part of a dotted topic before the first dot
\* as channel and the rest, its dots separating path segments, as subtopic;
\* it sends one POST to {http adapter URL}/m/{domain}/c/{channel}/{subtopic}
\* whose Authorization header is "Client <secret>", not the bearer token.
C6_SendTopic ==
    (pc \in {"sent", "done"} /\ IsMethod(call.op, "Messages", "send")
        /\ Dotted(call.args.topic)) =>
        LET topic == call.args.topic
            channel == SubSeq(topic, 1, FirstDot(topic) - 1)
            subtopic == SubSeq(topic, FirstDot(topic) + 1, Len(topic))
        IN  /\ Len(wire) = 1
            /\ wire[1].verb = "POST"
            /\ wire[1].url = config.Messages.http_adapter_url
                                \o <<"/", "m", "/">> \o call.args.domain_id
                                \o <<"/", "c", "/">> \o channel
                                \o <<"/">> \o ReplaceDots(subtopic)
            /\ wire[1].auth = <<"Client", " ">> \o call.args.secret
            /\ wire[1].auth # <<"Bearer", " ">> \o PyStr(call.args.token)

C6_Witness ==
    /\ pc = "sent"
    /\ IsMethod(call.op, "Messages", "send")
    /\ call.args.topic = <<"ch1", ".", "s1", ".", "s2">>
    /\ config.Messages.http_adapter_url = <<"http:", "/", "/", "http_adapter_url", "/", "api">>
    /\ Len(wire) = 1

\* C7: when the transport fails, the caller receives that transport
\* exception itself, not an Error, not another exception and not a result,
\* also through the role wrappers.
C7_TransportPropagates ==
    (Completed /\ resp.fail # "") =>
        /\ outcome.kind = "exception"
        /\ outcome.exc = resp.fail
        /\ outcome = Raise(resp.fail)

C7_Witness ==
    /\ Completed
    /\ resp.fail = "Timeout"
    /\ call.op.via = "view_role"
    /\ outcome.exc = "Timeout"

\* C8 as stated: every invocation, whatever its outcome, has sent exactly one
\* request.
C8_ExactlyOne == Completed => Len(wire) = 1

\* C8 amended: an invocation sends at most one request: exactly one once it
\* reaches the send, whatever the outcome (success, failure response,
\* transport failure), and none when it raises before sending; a request is
\* never sent a second time.
C8_AtMostOne ==
    /\ Len(wire) <= 1
    /\ pc = "sent" => Len(wire) = 1
    /\ Completed => Len(wire) = (IF resp = NoReply THEN 0 ELSE 1)
    /\ (Completed /\ resp = NoReply) => outcome.kind = "exception"

C8_Witness ==
    /\ Completed
    /\ resp.status = 500
    /\ outcome.kind = "Error"
    /\ Len(wire) = 1

\* the generic acknowledgement: a Response with the HTTP status and a message
IsAck(o, r) ==
    /\ o.kind = "result"
    /\ o.shape = "ack"
    /\ o.rec = "Response"
    /\ o.status = r.status
    /\ o.ack # ""

\* the body's data: a record built from it, the parsed JSON, or a field of it
IsData(o, r) ==
    /\ o.kind = "result"
    /\ o.shape \in {"record", "json", "field"}
    /\ o.id = r.id

AckingWrites ==
    {"add_bootstrap", "whitelist", "update_bootstrap", "update_bootstrap_connection"}

PostDeletes ==
    {"delete_role_actions", "delete_all_role_actions",
     "delete_role_members", "delete_all_role_members"}

\* the Roles method behind a call, for the helper itself and for a wrapper
RoleMethod(op) ==
    IF op.via # "" THEN op.via ELSE IF op.cl = "Roles" THEN op.name ELSE ""

OwnRequest(t) == Request(config, threads[t].call.op, threads[t].call.args)

\* what caller t's call returns or raises for the response it received
OwnOutcome(t) ==
    LET th == threads[t]
    IN  IF th.resp.fail # "" THEN Raise(th.resp.fail)
        ELSE IF th.resp = NoReply
        THEN Raise(PreError(config, th.call.op, th.call.args))
        ELSE Deliver(th.call.op, HandleResponse(th.call.op, th.call.args, th.resp))

\* the credentials of the callers other than t
OthersCredentials(t) ==
    UNION {{<<"Bearer", " ">> \o PyStr(TokenOf(u)), <<"Client", " ">> \o SecretOf(u)} :
              u \in Callers \ {t}}

\* C11: however the calls of several callers on one SDK object interleave,
\* the request a call sends (URL, headers, body) is the one built from its
\* own arguments and the construction-time configuration, its Authorization
\* header never carries another caller's token or secret, and what it returns
\* or raises is determined by its own arguments and its own response.
C11_OwnArguments ==
    \A t \in Callers :
        /\ threads[t].pc \in {"sent", "done"} /\ threads[t].wire # <<>> =>
              /\ threads[t].wire = <<OwnRequest(t)>>
              /\ threads[t].wire[1].auth \notin OthersCredentials(t)
        /\ threads[t].pc = "done" => threads[t].outcome = OwnOutcome(t)

C11_Witness ==
    /\ threads["caller1"].pc = "done"
    /\ threads["caller1"].outcome.kind = "result"
    /\ IsMethod(threads["caller1"].call.op, "Channels", "connect_client")
    /\ threads["caller2"].pc = "sent"
    /\ IsMethod(threads["caller2"].call.op, "Messages", "send")
    /\ threads["caller1"].wire[1].auth # threads["caller2"].wire[1].auth

\* C12: after any sequence of calls, successful or failing, the clients hold
\* exactly what the constructor gave them (base URLs; endpoint names and
\* content type are fixed), so no token, request or response of a call is in
\* the object; and once a call has returned nothing of it is left.
C12_ConfigurationKept ==
    /\ config = SDK(Defaults(kwargs))
    /\ pc = "idle" =>
          call = NoCall /\ wire = <<>> /\ resp = NoReply /\ outcome = NoOutcome

C12_Witness ==
    /\ Completed
    /\ call.op.cl = "Bootstrap"
    /\ outcome.kind = "Error"
    /\ \E a \in UrlArguments : kwargs[a] = NoUrl
    /\ \E a \in UrlArguments : kwargs[a] # NoUrl

\* the path prefix a client passes to the Roles helper as endpoint
PrefixOf(op, a) ==
    CASE op.cl = "Domains"  -> <<"domains">>
      [] op.cl = "Clients"  -> a.domain_id \o <<"/", "clients">>
      [] op.cl = "Channels" -> a.domain_id \o <<"/", "channels">>
      [] OTHER              -> a.domain_id \o <<"/", "groups">>

\* the entity a role method of a client is about
EntityOf(op, a) == IF op.cl = "Domains" THEN a.domain_id ELSE a.id

\* the arguments of the call of the Roles helper that is equivalent to the
\* wrapper op called with a
HelperArgs(op, a) ==
    [a EXCEPT !.url = config[op.cl][op.base], !.endpoint = PrefixOf(op, a),
              !.id = EntityOf(op, a)]

\* what the Roles helper returns or raises when called with those arguments
HelperOutcome(op, a, r) ==
    IF r.fail # "" THEN Raise(r.fail)
    ELSE IF r = NoReply THEN Raise(PreError(config, Helper(op), HelperArgs(op, a)))
    ELSE HandleResponse(Helper(op), HelperArgs(op, a), r)

\* C13: every role method of Clients, Channels, Groups and Domains sends the
\* request the Roles helper sends when called with the client's base URL, its
\* path prefix and the entity's ID, and returns or raises what the helper does.
C13_WrapperIsHelper ==
    call.op.via # "" =>
        /\ wire # <<>> => wire = <<Request(config, Helper(call.op),
                                           HelperArgs(call.op, call.args))>>
        /\ Completed => outcome = HelperOutcome(call.op, call.args, resp)
        /\ Completed /\ wire = <<>> =>
              PreError(config, Helper(call.op), HelperArgs(call.op, call.args)) # ""

C13_Witness ==
    /\ Answered
    /\ IsMethod(call.op, "Groups", "create_group_role")
    /\ call.args.id = <<"/", "/", "evil">>
    /\ outcome.kind = "result"
    /\ outcome.rec = "Role"

\* the URL the constructor was given for a keyword, or the default
Given(a) == IF kwargs[a] # NoUrl THEN kwargs[a] ELSE <<"http:", "/", "/", "localhost">>

\* the keyword argument behind an attribute of a client
KeywordOf(attribute) == IF attribute = "journals_url" THEN "journal_url" ELSE attribute

\* the URLs SDK.__init__ hands to Health, invitations_url not among them
HealthKeywords ==
    {"users_url", "clients_url", "channels_url", "bootstrap_url", "certs_url",
     "readers_url", "http_adapter_url", "journal_url", "domains_url", "groups_url",
     "auth_url"}

StartsWith(s, prefix) ==
    Len(prefix) <= Len(s) /\ SubSeq(s, 1, Len(prefix)) = prefix

\* C14: every client of the facade holds the URL passed for its service
\* (trailing slashes stripped), Users also the clients URL, PATs the auth
\* URL, Messages the readers and HTTP-adapter URLs, and http://localhost for
\* every URL not passed; and every request goes to the URL so held.
C14_BaseUrls ==
    /\ config.Users.users_url = RStrip(Given("users_url"))
    /\ config.Users.clients_url = RStrip(Given("clients_url"))
    /\ config.Domains.domains_url = RStrip(Given("domains_url"))
    /\ config.Clients.clients_url = RStrip(Given("clients_url"))
    /\ config.Certs.certs_url = RStrip(Given("certs_url"))
    /\ config.Groups.groups_url = RStrip(Given("groups_url"))
    /\ config.Channels.channels_url = RStrip(Given("channels_url"))
    /\ config.Messages.readers_url = RStrip(Given("readers_url"))
    /\ config.Messages.http_adapter_url = RStrip(Given("http_adapter_url"))
    /\ config.Bootstrap.bootstrap_url = RStrip(Given("bootstrap_url"))
    /\ config.Journals.journals_url = RStrip(Given("journal_url"))
    /\ config.Rules.rules_url = RStrip(Given("rules_url"))
    /\ config.Reports.reports_url = RStrip(Given("reports_url"))
    /\ config.PATs.auth_url = RStrip(Given("auth_url"))
    /\ config.Alarms.alarms_url = RStrip(Given("alarms_url"))
    /\ \A a \in HealthKeywords : config.Health[a] = RStrip(Given(a))
    /\ config.Health.invitations_url = NoUrl
    /\ (wire # <<>> /\ call.op.cl \notin {"Roles", "Health", ""}) =>
          StartsWith(wire[1].url, RStrip(Given(KeywordOf(call.op.base))) \o <<"/">>)

C14_Witness ==
    /\ pc = "sent"
    /\ IsMethod(call.op, "Messages", "send")
    /\ kwargs["http_adapter_url"] = NoUrl
    /\ kwargs["readers_url"] = <<"http:", "/", "/", "readers_url", "/">>
    /\ config.Messages.readers_url = <<"http:", "/", "/", "readers_url">>
    /\ StartsWith(wire[1].url, <<"http:", "/", "/", "localhost", "/">>)

\* C15: whenever a failure response has a JSON body with a message and an
\* error detail, the raised Error carries the status, the message and that
\* detail, for every method of every client.
C15_DetailCarried ==
    (Answered /\ ~Ok(resp.status) /\ resp.json
        /\ resp.message # PyNone /\ resp.error # PyNone) =>
        /\ outcome.kind = "Error"
        /\ outcome.status = resp.status
        /\ outcome.error = resp.message
        /\ outcome.detail = resp.error

\* the methods whose signature has no token
TokenLess ==
    { <<"Bootstrap", "bootstrap">>, <<"Bootstrap", "secure_bootstrap">>,
      <<"Health", "health">>, <<"Messages", "send">>, <<"Users", "create_token">>,
      <<"Users", "reset_password_request">> }

TakesToken(op) == <<op.cl, op.name>> \notin TokenLess

\* C16: the request of every method that takes a token carries
\* "Authorization: Bearer <token>" with the token of that call; Messages.send
\* and Bootstrap.bootstrap carry "Authorization: Client <secret>";
\* Users.create carries no Authorization header when it is given no token,
\* and Users.create_token never carries one.
C16_AuthorizationHeader ==
    (pc \in {"sent", "done"} /\ wire # <<>>) =>
        LET op == call.op
            a == call.args
            header == wire[1].auth
        IN  CASE IsMethod(op, "Messages", "send") \/ IsMethod(op, "Bootstrap", "bootstrap") ->
                     header = <<"Client", " ">> \o a.secret
              [] IsMethod(op, "Users", "create") ->
                     header = (IF a.token = PyNone THEN Absent
                               ELSE <<"Bearer", " ">> \o a.token.s)
              [] IsMethod(op, "Users", "create_token") -> header = Absent
              [] TakesToken(op) -> header = <<"Bearer", " ">> \o a.token.s
              [] OTHER -> TRUE

C16_Witness ==
    /\ pc = "sent"
    /\ IsMethod(call.op, "Users", "create")
    /\ call.args.token = PyNone
    /\ wire[1].auth = Absent
    /\ wire[1].ctype = content_type

C18_FixedTimeout ==
    \A i \in DOMAIN wire : wire[i].timeout = 30

C18_Witness ==
    /\ pc = "sent"
    /\ IsMethod(call.op, "Health", "health")
    /\ Len(wire) = 1
    /\ wire[1].timeout = 30
    /\ wire[1].ctype = Absent

IsResult == outcome.kind = "result"

\* an Error that carries the HTTP status of the response
IsStatusError == outcome.kind = "Error" /\ Answered /\ outcome.status = resp.status

\* the exception requests raised for a transport failure
IsTransportException ==
    outcome.kind = "exception" /\ resp.fail \in TransportErrors /\ outcome.exc = resp.fail

\* another exception: raised before anything was sent, or while the body of
\* the response was decoded
IsOtherException ==
    /\ outcome.kind = "exception"
    /\ resp.fail = ""
    /\ \/ wire = <<>> /\ outcome.exc \in {"ValueError", "TypeError", "AttributeError"}
       \/ Answered /\ outcome.exc \in {"JSONDecodeError", "ValueError", "UnicodeDecodeError"}

PaddedKey(secret) ==
    LET raw == Utf8Encode(secret)
    IN  [i \in 1..32 |-> IF i <= Len(raw) THEN raw[i] ELSE 0]

\* C20: bootstrap_encrypt returns hex digits only, two for each of the 16
\* bytes of the IV it drew and of the n bytes of the UTF-8 plaintext: the IV
\* first, then the ciphertext under the secret truncated or zero-padded to
\* 32 bytes.  bootstrap_decrypt takes the first 16 bytes of the decoded
\* input as IV and the rest as ciphertext and decrypts under the key derived
\* in the same way.
C20_IvThenCiphertext ==
    cpc \in {"encrypted", "decrypted"} =>
        LET plain == Utf8Encode(ctext)
            buffer == FromHex(cenc)
            head == SubSeq(buffer.bytes, 1, 16)
            tail == SubSeq(buffer.bytes, 17, Len(buffer.bytes))
        IN  /\ Len(cenc) = 2 * (16 + Len(plain))
            /\ \A i \in DOMAIN cenc : IsHexDigit(cenc[i])
            /\ buffer.ok
            /\ Len(civ) = 16
            /\ head = civ
            /\ tail = CfbEncrypt(PaddedKey(ckey), civ, plain)
            /\ cpc = "decrypted" =>
                  /\ CfbDecrypt(PaddedKey(ckey), head, tail) = plain
                  /\ cdtext = Utf8Decode(CfbDecrypt(PaddedKey(ckey), head, tail)).text

C20_Witness ==
    /\ cpc = "decrypted"
    /\ Len(Utf8Encode(ctext)) > 16
    /\ Len(Utf8Encode(ctext)) > Len(ctext)
    /\ Len(Utf8Encode(ckey)) > 32
    /\ Len(cenc) = 2 * (16 + Len(Utf8Encode(ctext)))
    /\ cdtext = ctext

\* the names Health.health supports
SupportedServices ==
    {"clients", "users", "channels", "bootstrap", "certs", "reader",
     "http-adapter", "journal", "invitations", "domains", "groups", "pats"}

\* the keyword argument of Health.__init__ that configures a service
KeywordOfService(service) ==
    CASE service = "reader"       -> "readers_url"
      [] service = "http-adapter" -> "http_adapter_url"
      [] service = "pats"         -> "auth_url"
      [] OTHER                    -> service \o "_url"

\* a URL was configured for the service when the Health client was constructed
Configured(service) == KeywordOfService(service) \in HealthKeywords

\* C21: Health.health raises without sending anything when the service name
\* is not a supported one or no URL was configured for the service; otherwise
\* it sends exactly one GET to {service URL}/health without an Authorization
\* header.
C21_HealthProbe ==
    (pc \in {"sent", "done"} /\ IsMethod(call.op, "Health", "health")) =>
        LET service == call.args.service
        IN  IF service \notin SupportedServices \/ ~Configured(service)
            THEN /\ wire = <<>>
                 /\ Completed
                 /\ resp = NoReply
                 /\ outcome.kind = "exception"
            ELSE /\ Len(wire) = 1
                 /\ wire[1].verb = "GET"
                 /\ wire[1].url = RStrip(Given(KeywordOfService(service)))
                                     \o <<"/", "health">>
                 /\ wire[1].auth = Absent

C21_Witness ==
    /\ Completed
    /\ IsMethod(call.op, "Health", "health")
    /\ call.args.service = "invitations"
    /\ config.Health.invitations_url = NoUrl
    /\ wire = <<>>
    /\ outcome.exc = "ValueError"

\* the list methods that iterate query_params.items()
MappingReaders ==
    { <<"Users", "users">>, <<"Clients", "clients">>, <<"Domains", "domains">>,
      <<"Groups", "groups">>, <<"Rules", "list">> }

\* the list methods that iterate query_params.__dict__.items()
AttributeReaders ==
    { <<"Roles", "list_roles">>, <<"Alarms", "list">>, <<"PATs", "list_pats">>,
      <<"Journals", "entity_journals">> }

\* the invocation failed before anything was sent
FailedBeforeSending ==
    /\ Completed
    /\ wire = <<>>
    /\ resp = NoReply
    /\ outcome.kind = "exception"

\* C22: the list methods that read the parameters as a mapping fail when
\* given an attribute record, those that read its attributes fail when given
\* a mapping, in both cases before any request is sent; each sends its
\* request when given the kind it reads.
C22_ParametersKind ==
    LET method == <<call.op.cl, call.op.name>>
        kind == call.args.params.kind
    IN  /\ (pc \in {"sent", "done"} /\ method \in MappingReaders) =>
              IF kind = "record" THEN FailedBeforeSending ELSE Len(wire) = 1
        /\ (pc \in {"sent", "done"} /\ method \in AttributeReaders) =>
              IF kind = "mapping" THEN FailedBeforeSending ELSE Len(wire) = 1

C22_Witness ==
    /\ Completed
    /\ IsMethod(call.op, "Alarms", "list")
    /\ call.args.params.kind = "mapping"
    /\ call.args.params.limit = PyInt(10)
    /\ wire = <<>>
    /\ outcome.exc = "AttributeError"

\* the single-entity view methods that take list_roles
ViewMethods ==
    { <<"Clients", "client">>, <<"Channels", "channel">>, <<"Groups", "group">>,
      <<"Domains", "domain">> }

EndsWith(s, suffix) ==
    Len(suffix) <= Len(s) /\ SubSeq(s, Len(s) - Len(suffix) + 1, Len(s)) = suffix

HasQueryString(url) == \E i \in 1..Len(url) : url[i] = "?"

\* the URL is one without query string followed by the suffix
QueryIs(url, suffix) ==
    /\ EndsWith(url, suffix)
    /\ ~HasQueryString(SubSeq(url, 1, Len(url) - Len(suffix)))

\* C23: the URL of Clients.client, Channels.channel, Groups.group and
\* Domains.domain has no query string when list_roles is not given, and ends
\* with exactly "?roles=true" or "?roles=false", according to the value, when
\* it is given.
C23_RolesFlag ==
    (pc \in {"sent", "done"} /\ <<call.op.cl, call.op.name>> \in ViewMethods) =>
        /\ Len(wire) = 1
        /\ CASE call.args.list_roles = PyNone ->
                     ~HasQueryString(wire[1].url)
              [] call.args.list_roles = PyBool(TRUE) ->
                     QueryIs(wire[1].url, <<"?", "roles", "=", "true">>)
              [] call.args.list_roles = PyBool(FALSE) ->
                     QueryIs(wire[1].url, <<"?", "roles", "=", "false">>)
              [] OTHER -> FALSE

C23_Witness ==
    /\ pc = "sent"
    /\ IsMethod(call.op, "Domains", "domain")
    /\ call.args.list_roles = PyBool(FALSE)
    /\ EndsWith(wire[1].url, <<"/", "domains", "/", "dom1", "?", "roles", "=", "false">>)

C25_ReadSubtopic ==
    (pc \in {"sent", "done"} /\ IsMethod(call.op, "Messages", "read") /\ wire # <<>>) =>
        LET channel_id == call.args.topic
            channel == IF Dotted(channel_id)
                       THEN SubSeq(channel_id, 1, FirstDot(channel_id) - 1)
                       ELSE channel_id
            subtopic == IF Dotted(channel_id)
                        THEN SubSeq(channel_id, FirstDot(channel_id) + 1, Len(channel_id))
                        ELSE <<>>
        IN  UrlParse(wire[1].url).path =
                UrlParse(config.Messages.readers_url).path
                    \o <<"/">> \o call.args.domain_id
                    \o <<"/", "channels", "/">> \o channel \o <<"/", "messages">>
                    \o (IF Dotted(channel_id)
                        THEN <<"/">> \o ReplaceDots(subtopic) ELSE <<>>)

\* what follows the path of the base URL in the path of a request URL
PathBelow(base, url) ==
    SubSeq(UrlParse(url).path, Len(UrlParse(base).path) + 1, Len(UrlParse(url).path))

\* C26: in Messages.send every dot of the topic separates: the topic
\* c.s1.s2...sn is posted to m/{domain}/c/c/s1/s2/.../sn, no dot being left in
\* the path, and a topic without dot is posted with an empty subtopic, to
\* m/{domain}/c/{topic}/, which ends in a slash.
C26_SendPath ==
    (pc \in {"sent", "done"} /\ IsMethod(call.op, "Messages", "send")) =>
        LET topic == call.args.topic
            path == PathBelow(config.Messages.http_adapter_url, wire[1].url)
        IN  /\ Len(wire) = 1
            /\ wire[1].verb = "POST"
            /\ StartsWith(wire[1].url, config.Messages.http_adapter_url \o <<"/">>)
            /\ path = <<"/", "m", "/">> \o call.args.domain_id \o <<"/", "c", "/">>
                          \o ReplaceDots(topic)
                          \o (IF Dotted(topic) THEN <<>> ELSE <<"/">>)
            /\ \A i \in DOMAIN path : path[i] # "."
            /\ ~Dotted(topic) => path[Len(path)] = "/"

C26_Witness ==
    /\ pc = "sent"
    /\ IsMethod(call.op, "Messages", "send")
    /\ call.args.topic = <<"ch1">>
    /\ EndsWith(wire[1].url, <<"/", "c", "/", "ch1", "/">>)

\* base URLs are compared with up to this many trailing slashes
MaxSlashes == 2

Slashes(n) == [i \in 1..n |-> "/"]

\* the keyword arguments of a construction that passes every URL of the
\* current one with n trailing slashes
Slashed(n) == [a \in UrlArguments |-> RStrip(Given(a)) \o Slashes(n)]

\* the base URL, as given at construction, that a call of the method uses
GivenBase(op, a) ==
    IF op.cl = "Health" THEN Given(KeywordOfService(a.service))
    ELSE Given(KeywordOf(op.base))

\* C27: the trailing slashes of a base URL do not matter: clients constructed
\* with base URLs that differ only in the number of trailing slashes send
\* the same request URL for every operation and arguments, and that URL has
\* exactly one slash between the base URL and the path.
C27_TrailingSlashes ==
    (pc \in {"sent", "done"} /\ wire # <<>> /\ call.op.cl # "Roles") =>
        LET op == call.op
            a == call.args
            base == RStrip(GivenBase(op, a))
        IN  /\ \A n \in 0..MaxSlashes :
                  /\ PreError(SDK(Slashed(n)), op, a) = ""
                  /\ RequestUrl(SDK(Slashed(n)), op, a) = wire[1].url
            /\ StartsWith(wire[1].url, base \o <<"/">>)
            /\ Len(wire[1].url) > Len(base) + 1
            /\ wire[1].url[Len(base) + 2] # "/"

C27_Witness ==
    /\ pc = "sent"
    /\ IsMethod(call.op, "Groups", "group")
    /\ kwargs["groups_url"] = <<"http:", "/", "/", "groups_url", "/", "api", "/">>
    /\ wire[1].url = RequestUrl(SDK(Slashed(0)), call.op, call.args)
    /\ wire[1].url = RequestUrl(SDK(Slashed(2)), call.op, call.args)
    /\ StartsWith(wire[1].url, <<"http:", "/", "/", "groups_url", "/", "api", "/", "dom1">>)

\* the base URL a call of the method is to go to, as the caller configured it
BaseOf(op, a) == IF op.cl = "Roles" THEN a.url ELSE RStrip(GivenBase(op, a))

\* C28: whatever the values of the ID arguments (a leading "/" or "//", "..",
\* scheme://host), the URL of every request starts with the base URL
\* configured at construction: no ID redirects the request, and the bearer
\* token with it, to another host or outside the base path.
C28_UnderBaseUrl ==
    (pc \in {"sent", "done"} /\ wire # <<>>) =>
        StartsWith(wire[1].url, BaseOf(call.op, call.args) \o <<"/">>)

\* the longer byte string is the shorter one followed by zero bytes only,
\* and has at most 32 bytes
ZeroExtends(short, long) ==
    /\ Len(short) <= Len(long)
    /\ Len(long) <= 32
    /\ SubSeq(long, 1, Len(short)) = short
    /\ \A i \in (Len(short) + 1)..Len(long) : long[i] = 0

\* the UTF-8 encodings of the two secrets agree on their first 32 bytes, or
\* differ only by trailing zero bytes up to 32 bytes
Interchangeable(k1, k2) ==
    LET e1 == Utf8Encode(k1)
        e2 == Utf8Encode(k2)
    IN  \/ Len(e1) >= 32 /\ Len(e2) >= 32 /\ SubSeq(e1, 1, 32) = SubSeq(e2, 1, 32)
        \/ ZeroExtends(e1, e2)
        \/ ZeroExtends(e2, e1)

\* C29: two crypto keys whose UTF-8 encodings agree on their first 32 bytes,
\* or differ only by trailing zero bytes up to 32 bytes, are interchangeable:
\* what bootstrap_encrypt encrypted under one, bootstrap_decrypt under the
\* other decrypts to the plaintext and returns as under the same key; bytes
\* of the secret after the 32nd do not affect the result.
C29_InterchangeableKeys ==
    (cpc = "decrypted" /\ Interchangeable(ckey, cdkey)) =>
        /\ cdtext = ctext
        /\ cdec = IF JsonLoads(ctext).t = "invalid"
                  THEN [exc |-> "JSONDecodeError", value |-> NoJson]
                  ELSE [exc |-> "", value |-> JsonLoads(ctext)]
        /\ cdec = [exc |-> BootstrapDecrypt(cenc, ckey).exc,
                   value |-> BootstrapDecrypt(cenc, ckey).value]

C29_Witness ==
    /\ cpc = "decrypted"
    /\ ckey # cdkey
    /\ Interchangeable(ckey, cdkey)
    /\ Len(Utf8Encode(ckey)) > 32
    /\ Len(Utf8Encode(cdkey)) > 32
    /\ Utf8Encode(ckey)[33] # Utf8Encode(cdkey)[33]
    /\ Len(Utf8Encode(ctext)) > 16
    /\ cdtext = ctext
    /\ cdec.value.t = "object"

\* C30: through the facade, Health.health sends a request for every service
\* name it documents as valid: a URL is configured for each of them, so none
\* fails as not configured.
C30_EveryServiceProbed ==
    (pc \in {"sent", "done"} /\ IsMethod(call.op, "Health", "health")
        /\ call.args.service \in SupportedServices) =>
        /\ ServiceUrl(config.Health, call.args.service) # NoUrl
        /\ Len(wire) = 1
        /\ wire[1].verb = "GET"
        /\ ~(outcome.kind = "exception" /\ outcome.exc = "ValueError")

====
